---- MODULE Spec2Model ----
\* Verification model of the market-data acquisition, caching and screening
\* pipeline of AI_Stock_Investment_Assistant:
\*   agents/investment_advisor.py      file-backed cache, provider chain,
\*                                     analyze_investment (agent advisor)
\*   api/agents/investment_advisor.py  in-memory cache, single-provider fetch,
\*                                     _find_potential_stocks, analyze_investment
\*   agents/market_analyzer.py         _screen_potential_stocks
EXTENDS Integers, Sequences, FiniteSets, TLC

\* ------------------------------------------------------------------ bounds
\* The clock advances in steps of TickSeconds up to MaxTime (seconds).
TickSeconds == 150
MaxTime == 600
\* The screening universe holds up to MaxUniverse symbols. Any outcome may
\* befall its first FreeHead symbols; the later ones deliver data, with one of
\* the eligible profiles.
MaxUniverse == 11
FreeHead == 3
\* analyze_investment is called on batches of up to MaxBatch symbols.
MaxBatch == 2
\* Finite numbers handed to a sanitizer range over -MaxMagnitude..MaxMagnitude.
MaxMagnitude == 20
\* MAX_RETRIES of the environment and max_attempts range over 0..MaxLlmRetries.
MaxLlmRetries == 3
\* The workers that use one cache store at the same time.
NumWorkers == 2
\* An indicator computation is tried with at most MaxFaults of its library
\* objects yielding NaN or raising.
MaxFaults == 2
\* _convert_to_symbol is applied to every string of at most MaxQueryLen
\* characters over QueryAlphabet, and to the names of NamedQueries.
MaxQueryLen == 3

\* ------------------------------------------------------- program constants
\* agents/investment_advisor.py:57   cache_age < 600
FileTTL == 600
\* api/agents/investment_advisor.py:24   timedelta(minutes=5), in seconds
MemTTL == 300
\* agents/investment_advisor.py:77   max_retries: int = 3
DefaultMaxRetries == 3
\* number of data providers tried by one round of _fetch_stock_data
NumProviders == 4

\* agents/market_analyzer.py:647   for attempt in range(3)
ScreenRetries == 3
\* agents/market_analyzer.py:709   if score >= 60
ScoreCutoff == 60
\* agents/market_analyzer.py:735   potential_stocks[:10]
TopK == 10
\* api/agents/investment_advisor.py:1611   stocks[:10]
ApiTopK == 10
\* api/agents/investment_advisor.py:1582   the five tech_stocks
NumTechStocks == 5
\* agents/investment_advisor.py:94   time.sleep(2), also lines 138 and 188
PauseSeconds == 2
\* agents/investment_advisor.py:285   time.sleep(2 ** attempt)
BackoffBase == 2
\* api/agents/investment_advisor.py:77   len(query) <= 5 (agents/investment_advisor.py:664 likewise)
ShortSymbolLen == 5

Symbols == {"AAA", "BBB"}
Providers == 1..NumProviders

\* An optional value: Python's None is the empty tuple, a value x is <<x>>.
None == <<>>
Some(x) == <<x>>

\* A price history is the sequence of its closing prices; the empty sequence
\* is an empty DataFrame.
Hists == {<<10, 11>>}

\* Raw `stock.info` dictionaries yfinance may hand back: nothing at all (the
\* info request failed and the code substituted {}), a complete record, and a
\* record whose optional valuation keys are present but null.
InfoKeys == {"longName", "sector", "marketCap", "trailingPE", "forwardPE",
             "profitMargins", "dividendYield", "beta"}
EmptyInfo == [k \in {} |-> None]
FullInfo == [longName |-> Some("Acme Inc"), sector |-> Some("Tech"),
             marketCap |-> Some(50), trailingPE |-> Some(20),
             forwardPE |-> Some(18), profitMargins |-> Some(25),
             dividendYield |-> Some(1), beta |-> Some(2)]
RawInfos == {EmptyInfo, FullInfo}

\* dict.get(key, default): the default only when the key is missing.
Get(d, k, default) == IF k \in DOMAIN d THEN d[k] ELSE default

\* processed_info built from yfinance's info (provider 1).
ProcessedInfo(symbol, info) ==
    [longName      |-> Get(info, "longName", Some(symbol)),
     sector        |-> Get(info, "sector", Some("Unknown")),
     marketCap     |-> Get(info, "marketCap", Some(0)),
     trailingPE    |-> Get(info, "trailingPE", None),
     forwardPE     |-> Get(info, "forwardPE", None),
     profitMargins |-> Get(info, "profitMargins", Some(0)),
     dividendYield |-> Get(info, "dividendYield", Some(0)),
     beta          |-> Get(info, "beta", Some(1))]

\* The fixed info record of the alternate Yahoo endpoint and of Alpha Vantage.
DefaultInfo(symbol) ==
    [longName |-> Some(symbol), sector |-> Some("Unknown"),
     marketCap |-> Some(0), trailingPE |-> None, forwardPE |-> None,
     profitMargins |-> Some(0), dividendYield |-> Some(0), beta |-> Some(1)]

\* Finnhub responses: the quote (price field "c" may be missing) and the
\* company profile.
Quotes == {[c |-> 7], [h |-> 8]}
Profiles == {[k \in {} |-> None]}

\* The one-row history built from the quote: its close is quote.get("c", 0).
FinnhubHist(quote) == << Get(quote, "c", 0) >>

FinnhubInfo(symbol, profile) ==
    [longName      |-> Get(profile, "name", Some(symbol)),
     sector        |-> Get(profile, "finnhubIndustry", Some("Unknown")),
     marketCap     |-> Get(profile, "marketCapitalization", Some(0)),
     trailingPE    |-> None,
     forwardPE     |-> None,
     profitMargins |-> Some(0),
     dividendYield |-> Some(0),
     beta          |-> Some(1)]

\* The (hist, info) tuple a provider path builds; `provider` records which
\* path built it.
Payload(p, hist, info) == [provider |-> p, hist |-> hist, info |-> info]

\* Placeholders of the model for "no payload", "no such file" and "no such
\* key": records of the same shape, told apart by their first field.
NoData == [provider |-> 0, hist |-> <<>>, info |-> <<>>]
NoFile == [exists |-> FALSE, data |-> NoData, mtime |-> 0, readable |-> TRUE]
NoEntry == [present |-> FALSE, data |-> NoData, timestamp |-> 0]

VARIABLES
    now,        \* wall clock, seconds
    files,      \* cache/stock_data/<symbol>_data.pkl: [exists, data, mtime]
    wstart,     \* history: start time of the fetch that wrote files[s]
    cache,      \* the API advisor's self.cache: [present, data, timestamp]
    fpc,        \* _fetch_stock_data (agent advisor): position
    fsym,       \* its symbol argument
    fmax,       \* its max_retries argument
    attempt,    \* its loop variable
    calls,      \* history: provider invocations made by the current call
    fails,      \* history: of these, the ones that failed
    fhit,       \* history: the current call returned the cached payload
    ffound,     \* history: what its cache lookup found: "absent", "stale",
                \*          "unreadable" or "fresh"
    fstart,     \* history: the time the current call started
    fgap,       \* seconds slept since the last provider request of the call
    fwait,      \* seconds slept between the last provider request and the one before
    fres,       \* the payload it returned (NoData while running or raised)
    apc,        \* _fetch_stock_data (API advisor): "idle" or "done"
    asym,       \* its symbol argument
    ares,       \* its result: None or <<the Ticker [symbol, hist]>>
    puts,       \* history: the last put of each store, per symbol
    gdone,      \* a direct get of a store has just returned
    gstore,     \* the store it read: "file" or "mem"
    gsym,       \* its symbol argument
    gres,       \* its result: None or <<payload>>
    screener,   \* the running screening pass: "market" or "api"
    spc,        \* its position: "idle", "loop" or "done"
    universe,   \* the number of symbols it iterates over (symbol i is the i-th)
    sidx,       \* the symbol being processed
    sattempt,   \* the retry loop variable of _screen_potential_stocks
    stocks,     \* potential_stocks / stocks: the cards appended so far
    senv,       \* history: what each processed symbol delivered
    sout,       \* the list the pass returned
    advisor,    \* the advisor whose analyze_investment runs: "agent" or "api"
    anpc,       \* its position: "idle", "loop", "fetching" or "done"
    batch,      \* the symbols it iterates over
    aidx,       \* the index of the symbol being processed
    fundamentals, \* the keys of result["investmentAdvice"]["fundamentals"]
    companyInfo,  \* the keys of result["investmentAdvice"]["companyInfo"]
    predictions,  \* result["investmentAdvice"]["predictions"]: <<key, value>>
    gptAnalysis,  \* the keys of result["investmentAdvice"]["gptAnalysis"]
    aenv,       \* history: what each processed symbol came to
    aresult,    \* how the call ended: "none", "returned" or "raised"
    scored,     \* the last application of a scoring rule: [rule, input, raised, total]
    sanitized,  \* the last application of a sanitizer: [fn, input, raised, value, again]
    emitted,    \* the numbers of the last result handed to a caller: [by, fields]
    resolved,   \* the last application of _convert_to_symbol: [by, input, output, again]
    computed,   \* the last indicator computation: [fn, empty, fields, outcome, result]
    workers,    \* the cache operation each concurrent worker is in: [pc, op, data, seen, res]
    race,       \* history of the concurrent use: [store, removedFresh, lastPut]
    llm         \* a call of LLMProvider: [fn, pc, model, attempt, calls, fallbacks, slept, max, res]

cacheVars == <<files, wstart, cache>>
fetchVars == <<fpc, fsym, fmax, attempt, calls, fails, fhit, ffound, fstart, fgap, fwait, fres>>
apiVars == <<apc, asym, ares>>
getVars == <<puts, gdone, gstore, gsym, gres>>
screenVars == <<screener, spc, universe, sidx, sattempt, stocks, senv, sout>>
analysisVars == <<advisor, anpc, batch, aidx, fundamentals, companyInfo, predictions,
                  gptAnalysis, aenv, aresult>>
auxVars == <<computed, workers, race, llm>>
pureVars == <<scored, sanitized, emitted, resolved, auxVars>>
vars == <<now, cacheVars, fetchVars, apiVars, getVars, screenVars, analysisVars, pureVars>>

\* What the steps of one component leave alone.
outsideFetch == <<apiVars, getVars, screenVars, analysisVars, pureVars>>
outsideApiFetch == <<cacheVars, fetchVars, getVars, screenVars, analysisVars, pureVars>>
outsideStores == <<fetchVars, apiVars, screenVars, analysisVars, pureVars>>
outsideScreen == <<now, cacheVars, fetchVars, apiVars, getVars, analysisVars, pureVars>>
outsideAnalysis == <<apiVars, getVars, screenVars, pureVars>>
\* The state of the advisors and the analyzer, which applying a function by
\* itself leaves alone.
programVars == <<now, cacheVars, fetchVars, apiVars, getVars, screenVars, analysisVars>>

NoCalls == [p \in Providers |-> 0]

Init ==
    /\ now = 0
    /\ files = [s \in Symbols |-> NoFile]
    /\ wstart = [s \in Symbols |-> 0]
    /\ cache = [s \in Symbols |-> NoEntry]
    /\ fpc = "idle"
    /\ fsym = "AAA"
    /\ fmax = DefaultMaxRetries
    /\ attempt = 0
    /\ calls = NoCalls
    /\ fails = NoCalls
    /\ fhit = FALSE
    /\ ffound = "absent"
    /\ fgap = 0
    /\ fwait = 0
    /\ fstart = 0
    /\ fres = NoData
    /\ apc = "idle"
    /\ asym = "AAA"
    /\ ares = None
    /\ puts = [k \in {"file", "mem"} |-> [s \in Symbols |-> NoEntry]]
    /\ gdone = FALSE
    /\ gstore = "file"
    /\ gsym = "AAA"
    /\ gres = None
    /\ screener = "market"
    /\ spc = "idle"
    /\ universe = 0
    /\ sidx = 0
    /\ sattempt = 0
    /\ stocks = <<>>
    /\ senv = <<>>
    /\ sout = <<>>
    /\ advisor = "agent"
    /\ anpc = "idle"
    /\ batch = <<>>
    /\ aidx = 0
    /\ fundamentals = {}
    /\ companyInfo = {}
    /\ predictions = {}
    /\ gptAnalysis = {}
    /\ aenv = <<>>
    /\ aresult = "none"
    /\ scored = [rule |-> "none", input |-> <<>>, raised |-> FALSE, total |-> 0]
    /\ sanitized = [fn |-> "none", input |-> None, raised |-> FALSE,
                    value |-> None, again |-> None]
    /\ emitted = [by |-> "none", fields |-> <<>>]
    /\ resolved = [by |-> "none", input |-> <<>>, output |-> <<>>, again |-> <<>>]
    /\ computed = [fn |-> "none", empty |-> FALSE, fields |-> {}, outcome |-> <<>>,
                   result |-> {}]
    /\ workers = [w \in 1..NumWorkers |->
                     [pc |-> "idle", op |-> "none", data |-> NoData, seen |-> NoEntry,
                      res |-> None]]
    /\ race = [store |-> "none", removedFresh |-> FALSE, lastPut |-> None]
    /\ llm = [fn |-> "none", pc |-> "idle", model |-> "default", attempt |-> 0,
              calls |-> 0, fallbacks |-> 0, slept |-> 0, max |-> 0, res |-> "none"]

\* The record of the last direct get is kept only until the next step.
ForgetGet ==
    /\ gdone' = FALSE
    /\ gstore' = "file"
    /\ gsym' = "AAA"
    /\ gres' = None

\* ------------------------------------------------------------------ clock
Tick ==
    /\ now + TickSeconds <= MaxTime
    /\ now' = now + TickSeconds
    /\ ForgetGet
    /\ UNCHANGED <<cacheVars, fetchVars, apiVars, puts, screenVars, analysisVars, pureVars>>

\* ------------------------------------------- file-backed cache (agent advisor)
FileFreshInclusive(file, t) == t - file.mtime <= FileTTL

\* The age test of _load_from_cache.
FileFresh(file, t) == t - file.mtime < FileTTL

LoadFromCacheUnchecked(symbol) ==
    IF files[symbol].exists /\ FileFresh(files[symbol], now)
    THEN Some(files[symbol].data)
    ELSE None

\* _load_from_cache: the pickled data of an existing, fresh file, else None.
\* The file is left in place whatever its age.
LoadFromCache(symbol) ==
    IF files[symbol].exists /\ FileFresh(files[symbol], now) /\ files[symbol].readable
    THEN Some(files[symbol].data)
    ELSE None

\* _save_to_cache: the file is rewritten and its mtime becomes the time of
\* the write.
SaveToCache(symbol, data) ==
    [files EXCEPT ![symbol] =
        [exists |-> TRUE, data |-> data, mtime |-> now, readable |-> TRUE]]

\* ------------------------------------- _fetch_stock_data (agent advisor)
FetchFinished == fpc \in {"idle", "returned", "raised"}
ProviderPc(p) == <<"p1", "p2", "p3", "p4">>[p]
AtProvider(p) == fpc = ProviderPc(p)

\* Lines 80-84: the cache lookup, and entry into the first round on a miss
\* (range(max_retries) is empty only for max_retries = 0, which no caller
\* passes).
\* What the lookup of _load_from_cache comes upon.
CacheLookup(symbol) ==
    IF ~files[symbol].exists THEN "absent"
    ELSE IF ~FileFresh(files[symbol], now) THEN "stale"
    ELSE IF ~files[symbol].readable THEN "unreadable"
    ELSE "fresh"

BeginFetch(symbol, maxRetries) ==
    /\ FetchFinished
    /\ fsym' = symbol
    /\ fmax' = maxRetries
    /\ fstart' = now
    /\ fhit' = (LoadFromCache(symbol) # None)
    /\ ffound' = CacheLookup(symbol)
    /\ fgap' = 0
    /\ fwait' = 0
    /\ attempt' = 0
    /\ calls' = NoCalls
    /\ fails' = NoCalls
    /\ IF LoadFromCache(symbol) # None
       THEN /\ fpc' = "returned"
            /\ fres' = LoadFromCache(symbol)[1]
       ELSE /\ fpc' = "p1"
            /\ fres' = NoData
    /\ UNCHANGED <<now, cacheVars>>

\* A call of _fetch_stock_data by itself.
StartFetch(symbol, maxRetries) ==
    /\ BeginFetch(symbol, maxRetries)
    /\ UNCHANGED outsideFetch

\* time.sleep before the request of a provider path (line 94, yfinance
\* only), and in its except clause (lines 138 and 188; the clauses of lines
\* 223-224 and 279-280 only log).
SleepBefore(p) == IF p = 1 THEN PauseSeconds ELSE 0
SleepAfterFailure(p) == IF p \in {1, 2} THEN PauseSeconds ELSE 0

\* A provider path that obtained data: the payload is saved, then returned.
ProviderSucceeds(p, data) ==
    /\ AtProvider(p)
    /\ fwait' = fgap + SleepBefore(p)
    /\ fgap' = 0
    /\ calls' = [calls EXCEPT ![p] = @ + 1]
    /\ files' = SaveToCache(fsym, data)
    /\ wstart' = [wstart EXCEPT ![fsym] = fstart]
    /\ fres' = data
    /\ fpc' = "returned"
    /\ UNCHANGED <<now, cache, fsym, fmax, attempt, fails, fhit, ffound, fstart, outsideFetch>>

AfterLastProviderExtraRound ==
    IF attempt < fmax
    THEN /\ attempt' = attempt + 1
         /\ fpc' = "p1"
         /\ fres' = NoData
    ELSE /\ attempt' = attempt + 1
         /\ fpc' = "raised"
         /\ fres' = NoData

\* Line 288 is reached when the last round ends without data.
AfterLastProvider ==
    IF attempt + 1 < fmax
    THEN /\ attempt' = attempt + 1
         /\ fpc' = "p1"
         /\ fres' = NoData
    ELSE /\ attempt' = attempt + 1
         /\ fpc' = "raised"
         /\ fres' = NoData

ProviderFailsSkipsNext(p) ==
    /\ AtProvider(p)
    /\ fwait' = fgap + SleepBefore(p)
    /\ fgap' = SleepAfterFailure(p)
    /\ calls' = [calls EXCEPT ![p] = @ + 1]
    /\ fails' = [fails EXCEPT ![p] = @ + 1]
    /\ IF p + 1 < NumProviders
       THEN /\ fpc' = ProviderPc(p + 2)
            /\ UNCHANGED <<attempt, fres>>
       ELSE AfterLastProvider
    /\ UNCHANGED <<now, cacheVars, fsym, fmax, fhit, ffound, fstart, outsideFetch>>

\* A provider path that raised, or answered without usable data: control
\* falls through to the next provider of the same round, and after the last
\* provider to the next round.
ProviderFails(p) ==
    /\ AtProvider(p)
    /\ fwait' = fgap + SleepBefore(p)
    /\ fgap' = SleepAfterFailure(p)
    /\ calls' = [calls EXCEPT ![p] = @ + 1]
    /\ fails' = [fails EXCEPT ![p] = @ + 1]
    /\ IF p < NumProviders
       THEN /\ fpc' = ProviderPc(p + 1)
            /\ UNCHANGED <<attempt, fres>>
       ELSE AfterLastProvider
    /\ UNCHANGED <<now, cacheVars, fsym, fmax, fhit, ffound, fstart, outsideFetch>>

\* Lines 92-138: yfinance.
YFinanceOk ==
    \E hist \in Hists, info \in RawInfos :
        ProviderSucceeds(1, Payload(1, hist, ProcessedInfo(fsym, info)))

YahooChartOkNoReturn ==
    \E hist \in Hists :
        /\ AtProvider(2)
        /\ fwait' = fgap + SleepBefore(2)
        /\ fgap' = 0
        /\ calls' = [calls EXCEPT ![2] = @ + 1]
        /\ files' = SaveToCache(fsym, Payload(2, hist, DefaultInfo(fsym)))
        /\ wstart' = [wstart EXCEPT ![fsym] = fstart]
        /\ fpc' = ProviderPc(3)
        /\ UNCHANGED <<now, cache, fsym, fmax, attempt, fails, fhit, ffound, fstart, fres,
                       outsideFetch>>

\* Lines 141-188: the alternate Yahoo chart endpoint.
YahooChartOk ==
    \E hist \in Hists : ProviderSucceeds(2, Payload(2, hist, DefaultInfo(fsym)))

\* Lines 191-224: Alpha Vantage.
AlphaVantageOk ==
    \E hist \in Hists : ProviderSucceeds(3, Payload(3, hist, DefaultInfo(fsym)))

\* Lines 227-280: Finnhub quote and profile.
FinnhubOk ==
    \E quote \in Quotes, profile \in Profiles :
        ProviderSucceeds(4, Payload(4, FinnhubHist(quote), FinnhubInfo(fsym, profile)))

ProviderFailure == \E p \in Providers : ProviderFails(p)

\* Lines 284-285: if attempt < max_retries - 1: time.sleep(2 ** attempt)
BackoffSleep(k, maxRetries) == IF k < maxRetries - 1 THEN BackoffBase ^ k ELSE 0

\* Lines 85-89 and 282-286: the statements of a round that stand outside the
\* four provider blocks (the import and the PoolManager set-up) raise before
\* any request of the round; the handler of the round sleeps and the loop
\* continues with the next round, or falls out to line 288.
RoundSetupRaises ==
    /\ AtProvider(1)
    /\ fgap' = fgap + BackoffSleep(attempt, fmax)
    /\ AfterLastProvider
    /\ UNCHANGED <<now, cacheVars, fsym, fmax, calls, fails, fhit, ffound, fstart, fwait,
                   outsideFetch>>

\* Every caller leaves max_retries at its default.
CallFetch == \E s \in Symbols : StartFetch(s, DefaultMaxRetries)

\* The cache file of a symbol is damaged, or made unreadable, from outside:
\* opening or unpickling it raises from then on (lines 58-64), until it is
\* written again.
CorruptFile ==
    \E s \in Symbols :
        /\ files[s].exists /\ files[s].readable
        /\ files' = [files EXCEPT ![s].readable = FALSE]
        /\ UNCHANGED <<now, wstart, cache, fetchVars, outsideFetch>>

\* ------------------------------------- _fetch_stock_data (API advisor)
\* Lines 113-131: one yfinance request; the Ticker is returned when its
\* history is not empty, None otherwise (empty history, or any exception).
\* self.cache is neither read nor written.
ApiFetchResult(symbol, hist, raised) ==
    IF raised \/ hist = <<>> THEN None
    ELSE Some([symbol |-> symbol, hist |-> hist])

ApiFetchStockData(symbol, hist, raised) ==
    /\ apc' = "done"
    /\ asym' = symbol
    /\ ares' = ApiFetchResult(symbol, hist, raised)
    /\ UNCHANGED <<now, outsideApiFetch>>

CallApiFetch ==
    \E s \in Symbols, h \in Hists \cup {<<>>}, r \in BOOLEAN :
        ApiFetchStockData(s, h, r)

\* ------------------------------------------ the two cache stores, called
\* directly: _save_to_cache / _load_from_cache of the agent advisor and
\* _cache_data / _get_cached_data of the API advisor.
CachePayloads(symbol) ==
    {Payload(2, <<10, 11>>, DefaultInfo(symbol)), Payload(3, <<12>>, DefaultInfo(symbol))}

RecordPut(store, symbol, data) ==
    /\ puts' = [puts EXCEPT ![store][symbol] =
                    [present |-> TRUE, data |-> data, timestamp |-> now]]
    /\ ForgetGet

RecordGet(store, symbol, result) ==
    /\ gdone' = TRUE
    /\ gstore' = store
    /\ gsym' = symbol
    /\ gres' = result
    /\ UNCHANGED puts

CallSaveToCache ==
    \E s \in Symbols : \E d \in CachePayloads(s) :
        /\ files' = SaveToCache(s, d)
        /\ RecordPut("file", s, d)
        /\ UNCHANGED <<now, wstart, cache, outsideStores>>

CallLoadFromCache ==
    \E s \in Symbols :
        /\ RecordGet("file", s, LoadFromCache(s))
        /\ UNCHANGED <<now, cacheVars, outsideStores>>

MemFreshInclusive(entry, t) == t - entry.timestamp <= MemTTL

\* The age test of _get_cached_data.
MemFresh(entry, t) == t - entry.timestamp < MemTTL

\* _get_cached_data: the value it returns ...
GetCachedData(symbol) ==
    IF cache[symbol].present /\ MemFresh(cache[symbol], now)
    THEN Some(cache[symbol].data)
    ELSE None

\* ... and the dictionary it leaves: a stale entry is deleted.
EvictStale(symbol) ==
    IF cache[symbol].present /\ ~MemFresh(cache[symbol], now)
    THEN [cache EXCEPT ![symbol] = NoEntry]
    ELSE cache

\* _cache_data
CacheData(symbol, data) ==
    [cache EXCEPT ![symbol] = [present |-> TRUE, data |-> data, timestamp |-> now]]

CallCacheData ==
    \E s \in Symbols : \E d \in CachePayloads(s) :
        /\ cache' = CacheData(s, d)
        /\ RecordPut("mem", s, d)
        /\ UNCHANGED <<now, files, wstart, outsideStores>>

CallGetCachedData ==
    \E s \in Symbols :
        /\ cache' = EvictStale(s)
        /\ RecordGet("mem", s, GetCachedData(s))
        /\ UNCHANGED <<now, files, wstart, outsideStores>>

Next ==
    \/ Tick
    \/ CallFetch
    \/ YFinanceOk
    \/ YahooChartOk
    \/ AlphaVantageOk
    \/ FinnhubOk
    \/ ProviderFailure

Spec == Init /\ [][Next]_vars

\* A provider request answers or times out (timeout=20), so a running call
\* keeps taking steps.
ProviderStep ==
    YFinanceOk \/ YahooChartOk \/ AlphaVantageOk \/ FinnhubOk \/ ProviderFailure

FairSpec == Spec /\ WF_vars(ProviderStep)

\* The agent advisor's fetch over a cache directory whose files may be
\* damaged, within the freshness window of every file written.
NextCorrupt ==
    \/ CallFetch
    \/ YFinanceOk
    \/ YahooChartOk
    \/ AlphaVantageOk
    \/ FinnhubOk
    \/ ProviderFailure
    \/ CorruptFile

SpecCorrupt == Init /\ [][NextCorrupt]_vars

\* The agent advisor's fetch with the round set-up free to raise, the clock
\* standing still.
NextBackoff ==
    \/ CallFetch
    \/ YFinanceOk
    \/ YahooChartOk
    \/ AlphaVantageOk
    \/ FinnhubOk
    \/ ProviderFailure
    \/ RoundSetupRaises

SpecBackoff == Init /\ [][NextBackoff]_vars

\* The two cache stores under direct gets and puts.
NextCache ==
    \/ Tick
    \/ CallSaveToCache
    \/ CallLoadFromCache
    \/ CallCacheData
    \/ CallGetCachedData

SpecCache == Init /\ [][NextCache]_vars

\* ------------------------------------------------ the stores used concurrently
\* Several workers call the methods of one store for the same symbol, their
\* statements interleaving: neither store takes a lock.
Workers == 1..NumWorkers
RaceSymbol == "AAA"
RacePayloads ==
    {Payload(1, <<10, 11>>, ProcessedInfo(RaceSymbol, FullInfo)),
     Payload(2, <<12>>, DefaultInfo(RaceSymbol))}

outsideRace ==
    <<wstart, fetchVars, apiVars, getVars, screenVars, analysisVars,
      scored, sanitized, emitted, resolved, computed, llm>>

AtStep(w, op, pc) == workers[w].op = op /\ workers[w].pc = pc
Free(w) == workers[w].pc \in {"idle", "done", "raised"}
UsesStore(store) == race.store \in {"none", store}

Begin(w, op, pc, data) ==
    [workers EXCEPT ![w] = [pc |-> pc, op |-> op, data |-> data, seen |-> NoEntry,
                            res |-> None]]
Finish(w, pc, res) == [workers EXCEPT ![w].pc = pc, ![w].res = res]

\* api/agents/investment_advisor.py line 29: if symbol in self.cache
MemGetTestsKey(w) ==
    /\ Free(w) /\ UsesStore("mem")
    /\ workers' = IF cache[RaceSymbol].present
                  THEN Begin(w, "mem_get", "read", NoData)
                  ELSE [Begin(w, "mem_get", "done", NoData) EXCEPT ![w].res = None]
    /\ race' = [race EXCEPT !.store = "mem"]
    /\ UNCHANGED <<now, files, cache, outsideRace>>

\* Line 30: data, timestamp = self.cache[symbol]; KeyError when the key has
\* gone since line 29.
MemGetReadsEntry(w) ==
    /\ AtStep(w, "mem_get", "read")
    /\ workers' = IF cache[RaceSymbol].present
                  THEN [workers EXCEPT ![w].pc = "test", ![w].seen = cache[RaceSymbol]]
                  ELSE Finish(w, "raised", None)
    /\ UNCHANGED <<now, files, cache, race, outsideRace>>

\* Lines 31-32: the age test on the timestamp read at line 30.
MemGetTestsAge(w) ==
    /\ AtStep(w, "mem_get", "test")
    /\ workers' = IF MemFresh(workers[w].seen, now)
                  THEN Finish(w, "done", Some(workers[w].seen.data))
                  ELSE [workers EXCEPT ![w].pc = "delete"]
    /\ UNCHANGED <<now, files, cache, race, outsideRace>>

\* Lines 33-34: del self.cache[symbol], whatever the key holds by now.
MemGetDeletes(w) ==
    /\ AtStep(w, "mem_get", "delete")
    /\ IF cache[RaceSymbol].present
       THEN /\ cache' = [cache EXCEPT ![RaceSymbol] = NoEntry]
            /\ race' = [race EXCEPT !.removedFresh =
                            @ \/ MemFresh(cache[RaceSymbol], now)]
            /\ workers' = Finish(w, "done", None)
       ELSE /\ workers' = Finish(w, "raised", None)
            /\ UNCHANGED <<cache, race>>
    /\ UNCHANGED <<now, files, outsideRace>>

\* Lines 36-38, _cache_data: one dictionary store.
MemPut(w) ==
    /\ Free(w) /\ UsesStore("mem")
    /\ \E d \in RacePayloads :
        /\ cache' = CacheData(RaceSymbol, d)
        /\ workers' = Begin(w, "mem_put", "done", d)
        /\ race' = [race EXCEPT !.store = "mem", !.lastPut = Some(d)]
    /\ UNCHANGED <<now, files, outsideRace>>

\* agents/investment_advisor.py line 54: cache_path.exists()
LoadTestsExists(w) ==
    /\ Free(w) /\ UsesStore("file")
    /\ workers' = IF files[RaceSymbol].exists
                  THEN Begin(w, "load", "stat", NoData)
                  ELSE Begin(w, "load", "done", NoData)
    /\ race' = [race EXCEPT !.store = "file"]
    /\ UNCHANGED <<now, files, cache, outsideRace>>

\* Lines 55-57: the age of the file by its mtime.
LoadTestsAge(w) ==
    /\ AtStep(w, "load", "stat")
    /\ workers' = IF FileFresh(files[RaceSymbol], now)
                  THEN [workers EXCEPT ![w].pc = "open"]
                  ELSE Finish(w, "done", None)
    /\ UNCHANGED <<now, files, cache, race, outsideRace>>

\* What the file holds is whole when both parts of the pickle are there,
\* and one put's when both parts are the same put's.
Whole(data) == data.hist # <<>> /\ data.info # <<>>
OnePuts(data) == data \in RacePayloads

\* Lines 58-64: open and pickle.load. A file being written is empty or cut
\* short and unpickling raises, which is caught; a file holding parts of two
\* puts unpickles or raises.
LoadUnpickles(w) ==
    /\ AtStep(w, "load", "open")
    /\ \E unpickled \in BOOLEAN :
        /\ unpickled => Whole(files[RaceSymbol].data)
        /\ ~unpickled => ~OnePuts(files[RaceSymbol].data)
        /\ workers' = Finish(w, "done",
                             IF unpickled THEN Some(files[RaceSymbol].data) ELSE None)
    /\ UNCHANGED <<now, files, cache, race, outsideRace>>

\* Line 70: open(cache_path, 'wb') creates or truncates the file.
SaveOpens(w) ==
    /\ Free(w) /\ UsesStore("file")
    /\ \E d \in RacePayloads : workers' = Begin(w, "save", "first", d)
    /\ files' = [files EXCEPT ![RaceSymbol] =
                    [exists |-> TRUE, data |-> NoData, mtime |-> now,
                     readable |-> FALSE]]
    /\ race' = [race EXCEPT !.store = "file"]
    /\ UNCHANGED <<now, cache, outsideRace>>

\* Line 71: pickle.dump writes the tuple (hist, info) through the file
\* object in more than one write: first the history ...
SaveWritesHist(w) ==
    /\ AtStep(w, "save", "first")
    /\ files' = [files EXCEPT ![RaceSymbol].data.hist = workers[w].data.hist,
                              ![RaceSymbol].data.provider = workers[w].data.provider,
                              ![RaceSymbol].mtime = now,
                              ![RaceSymbol].readable = files[RaceSymbol].data.info # <<>>]
    /\ workers' = [workers EXCEPT ![w].pc = "second"]
    /\ UNCHANGED <<now, cache, race, outsideRace>>

\* ... then the info, at this writer's own offset, and the file is closed.
SaveWritesInfo(w) ==
    /\ AtStep(w, "save", "second")
    /\ files' = [files EXCEPT ![RaceSymbol].data.info = workers[w].data.info,
                              ![RaceSymbol].mtime = now,
                              ![RaceSymbol].readable = files[RaceSymbol].data.hist # <<>>]
    /\ workers' = [workers EXCEPT ![w].pc = "done"]
    /\ race' = [race EXCEPT !.lastPut = Some(workers[w].data)]
    /\ UNCHANGED <<now, cache, outsideRace>>

NextConcurrent ==
    \/ Tick
    \/ \E w \in Workers : MemGetTestsKey(w)
    \/ \E w \in Workers : MemGetReadsEntry(w)
    \/ \E w \in Workers : MemGetTestsAge(w)
    \/ \E w \in Workers : MemGetDeletes(w)
    \/ \E w \in Workers : MemPut(w)
    \/ \E w \in Workers : LoadTestsExists(w)
    \/ \E w \in Workers : LoadTestsAge(w)
    \/ \E w \in Workers : LoadUnpickles(w)
    \/ \E w \in Workers : SaveOpens(w)
    \/ \E w \in Workers : SaveWritesHist(w)
    \/ \E w \in Workers : SaveWritesInfo(w)

SpecConcurrent == Init /\ [][NextConcurrent]_vars

\* The API advisor: its fetch and its cache.
NextApi ==
    \/ Tick
    \/ CallApiFetch
    \/ CallCacheData
    \/ CallGetCachedData

SpecApi == Init /\ [][NextApi]_vars

\* ------------------------------------------------------------ screening
\* What yfinance delivers for one symbol of a screening pass: the indicator
\* values the code derives from the history and the fundamentals it reads
\* from info. margin is profitMargins in percent (profitMargins * 100).
Profile(rsi, macd, close, sma20, sma50, momentum, pe, margin) ==
    [rsi |-> rsi, macd |-> macd, close |-> close, sma_20 |-> sma20,
     sma_50 |-> sma50, momentum |-> momentum, pe_ratio |-> pe,
     profit_margin |-> margin]

\* A Python float: a finite number (here an integer), NaN, or an infinity.
Num(v) == [kind |-> "num", v |-> v]
NaN == [kind |-> "nan", v |-> 0]
PosInf == [kind |-> "pinf", v |-> 0]
NegInf == [kind |-> "ninf", v |-> 0]
IsNaN(x) == x.kind = "nan"
IsInf(x) == x.kind \in {"pinf", "ninf"}
IsFinite(x) == x.kind = "num"

\* a < b and a <= b on floats: every comparison with NaN is false.
FLt(a, b) ==
    /\ ~IsNaN(a) /\ ~IsNaN(b)
    /\ IF IsFinite(a) /\ IsFinite(b) THEN a.v < b.v
       ELSE (a.kind = "ninf" /\ b.kind # "ninf") \/ (b.kind = "pinf" /\ a.kind # "pinf")
FLe(a, b) == ~IsNaN(a) /\ ~IsNaN(b) /\ (FLt(a, b) \/ a = b)

Strong == Profile(Num(50), Num(1), Num(10), Num(9), Num(8), Num(5), Num(0), Num(0))
Fair == Profile(Num(65), Num(1), Num(10), Num(9), Num(8), Num(-2), Num(0), Num(0))
Weak == Profile(Num(35), Num(1), Num(10), Num(9), Num(11), Num(-10), Num(0), Num(0))

HeadProfiles == {Strong, Fair, Weak}
TailProfiles == {Strong, Fair}
ProfilesAt(i) == IF i <= FreeHead THEN HeadProfiles ELSE TailProfiles

\* A symbol that delivered nothing (no data, or an exception on every try).
NoProfile == <<>>

\* A fundamental that info holds as null: info.get(key, 0) then yields None,
\* and comparing None with a number raises TypeError.
NullFundamental(p) == p.pe_ratio = None \/ p.profit_margin = None

\* agents/market_analyzer.py lines 676-706: the inline scoring, by its parts.
InlineRsiPoints(p) ==
    IF FLe(Num(40), p.rsi) /\ FLe(p.rsi, Num(60)) THEN 20
    ELSE IF (FLe(Num(30), p.rsi) /\ FLt(p.rsi, Num(40)))
            \/ (FLt(Num(60), p.rsi) /\ FLe(p.rsi, Num(70))) THEN 15
    ELSE IF FLt(p.rsi, Num(30)) THEN 10
    ELSE 0

InlineMacdPoints(p) == IF FLt(Num(0), p.macd) THEN 20 ELSE 0

InlineTrendPoints(p) ==
    IF FLt(p.sma_20, p.close) /\ FLt(p.sma_50, p.sma_20) THEN 20
    ELSE IF FLt(p.sma_20, p.close) THEN 10
    ELSE 0

InlineMomentumPointsBothBranches(p) ==
    (IF FLt(Num(0), p.momentum) THEN 20 ELSE 0)
    + (IF FLt(Num(-5), p.momentum) THEN 10 ELSE 0)

InlineMomentumPoints(p) ==
    IF FLt(Num(0), p.momentum) THEN 20
    ELSE IF FLt(Num(-5), p.momentum) THEN 10
    ELSE 0

InlineFundamentalPoints(p) ==
    (IF FLt(Num(0), p.pe_ratio) /\ FLt(p.pe_ratio, Num(30)) THEN 10 ELSE 0)
    + (IF FLt(Num(10), p.profit_margin) THEN 10 ELSE 0)

\* The total of the inline scoring, for a profile it does not raise on.
InlineScore(p) ==
    InlineRsiPoints(p) + InlineMacdPoints(p) + InlineTrendPoints(p)
    + InlineMomentumPoints(p) + InlineFundamentalPoints(p)

\* The inline scoring raises on a null fundamental (lines 702-706).
InlineRaises(p) == NullFundamental(p)

Min(a, b) == IF a <= b THEN a ELSE b

\* min(momentum, 10) * 3 for a momentum above 0
CappedMomentum(m) == IF IsFinite(m) THEN Min(m.v, 10) * 3 ELSE 30

\* api/agents/investment_advisor.py lines 1617-1654: _calculate_stock_score,
\* with profitMargins in percent (0.2 is 20, 0.1 is 10). A null fundamental
\* raises TypeError inside its try, and the handler returns 0.
CalculateStockScore(p) ==
    IF NullFundamental(p) THEN 0
    ELSE
    Min((IF FLt(Num(0), p.momentum) THEN CappedMomentum(p.momentum) ELSE 0)
        + (IF FLe(Num(40), p.rsi) /\ FLe(p.rsi, Num(60)) THEN 20
           ELSE IF (FLe(Num(30), p.rsi) /\ FLt(p.rsi, Num(40)))
                   \/ (FLt(Num(60), p.rsi) /\ FLe(p.rsi, Num(70))) THEN 15
           ELSE IF (FLe(Num(20), p.rsi) /\ FLt(p.rsi, Num(30)))
                   \/ (FLt(Num(70), p.rsi) /\ FLe(p.rsi, Num(80))) THEN 10
           ELSE 0)
        + (IF FLt(Num(0), p.pe_ratio) /\ FLe(p.pe_ratio, Num(30)) THEN 25
           ELSE IF FLt(Num(30), p.pe_ratio) /\ FLe(p.pe_ratio, Num(50)) THEN 15
           ELSE 0)
        + (IF FLt(Num(20), p.profit_margin) THEN 25
           ELSE IF FLe(Num(10), p.profit_margin) /\ FLe(p.profit_margin, Num(20)) THEN 15
           ELSE IF FLt(Num(0), p.profit_margin) /\ FLt(p.profit_margin, Num(10)) THEN 10
           ELSE 0),
        100)

Card(symbol, score) == [symbol |-> symbol, score |-> score]

RECURSIVE InsertBeforeEquals(_, _)
InsertBeforeEquals(sorted, card) ==
    IF sorted = <<>> THEN <<card>>
    ELSE IF Head(sorted).score > card.score
         THEN <<Head(sorted)>> \o InsertBeforeEquals(Tail(sorted), card)
         ELSE <<card>> \o sorted

\* list.sort(key=score, reverse=True): a stable sort, so cards of equal
\* score keep the order in which they were appended. Each card is inserted
\* behind the cards whose score is not lower than its own.
RECURSIVE InsertByScore(_, _)
InsertByScore(sorted, card) ==
    IF sorted = <<>> THEN <<card>>
    ELSE IF Head(sorted).score >= card.score
         THEN <<Head(sorted)>> \o InsertByScore(Tail(sorted), card)
         ELSE <<card>> \o sorted

RECURSIVE SortByScore(_)
SortByScore(list) ==
    IF list = <<>> THEN <<>>
    ELSE InsertByScore(SortByScore(SubSeq(list, 1, Len(list) - 1)), list[Len(list)])

TakeAll(list, k) == list

\* list[:k]
Take(list, k) == SubSeq(list, 1, Min(k, Len(list)))

\* _screen_potential_stocks, lines 641-645: the universe is read from the
\* S&P 500 table.
ScreenStart(n) ==
    /\ spc \in {"idle", "done"}
    /\ screener' = "market"
    /\ spc' = "loop"
    /\ universe' = n
    /\ sidx' = 1
    /\ sattempt' = 0
    /\ stocks' = <<>>
    /\ senv' = <<>>
    /\ sout' = <<>>
    /\ UNCHANGED outsideScreen

\* Lines 737-739: reading the table raised; the pass returns [].
ScreenUniverseFails ==
    /\ spc \in {"idle", "done"}
    /\ screener' = "market"
    /\ spc' = "done"
    /\ universe' = 0
    /\ sidx' = 0
    /\ sattempt' = 0
    /\ stocks' = <<>>
    /\ senv' = <<>>
    /\ sout' = <<>>
    /\ UNCHANGED outsideScreen

\* The symbol loop moves on with the cards `cards`, its symbol having
\* delivered `delivered`; behind the last symbol the list is sorted and cut
\* (lines 734-735) and the pass returns.
ScreenNextSymbol(cards, delivered) ==
    /\ stocks' = cards
    /\ senv' = Append(senv, delivered)
    /\ sattempt' = 0
    /\ IF sidx < universe
       THEN /\ sidx' = sidx + 1
            /\ spc' = "loop"
            /\ sout' = <<>>
       ELSE /\ sidx' = sidx
            /\ spc' = "done"
            /\ sout' = Take(SortByScore(cards), TopK)

\* Lines 648-657 and 727-731: one try of the current symbol raised (it is
\* tried again, up to three times in all) ...
ScreenAttemptRaises ==
    /\ screener = "market" /\ spc = "loop"
    /\ sidx <= FreeHead
    /\ IF sattempt + 1 < ScreenRetries
       THEN /\ sattempt' = sattempt + 1
            /\ UNCHANGED <<spc, sidx, stocks, senv, sout>>
       ELSE ScreenNextSymbol(stocks, NoProfile)
    /\ UNCHANGED <<screener, universe, outsideScreen>>

\* ... or found no data (`break`) ...
ScreenAttemptEmpty ==
    /\ screener = "market" /\ spc = "loop"
    /\ sidx <= FreeHead
    /\ ScreenNextSymbol(stocks, NoProfile)
    /\ UNCHANGED <<screener, universe, outsideScreen>>

\* ... or scored the symbol (lines 659-725): the card is appended when the
\* score reaches the cutoff.
ScreenAttemptScores(p) ==
    /\ screener = "market" /\ spc = "loop"
    /\ ScreenNextSymbol(
          IF InlineScore(p) >= ScoreCutoff
          THEN Append(stocks, Card(sidx, InlineScore(p)))
          ELSE stocks,
          p)
    /\ UNCHANGED <<screener, universe, outsideScreen>>

CallScreen == \E n \in 1..MaxUniverse : ScreenStart(n)
ScreenScores == \E p \in ProfilesAt(sidx) : ScreenAttemptScores(p)

\* _find_potential_stocks, lines 1578-1582.
FindStart ==
    /\ spc \in {"idle", "done"}
    /\ screener' = "api"
    /\ spc' = "loop"
    /\ universe' = NumTechStocks
    /\ sidx' = 1
    /\ sattempt' = 0
    /\ stocks' = <<>>
    /\ senv' = <<>>
    /\ sout' = <<>>
    /\ UNCHANGED outsideScreen

\* The loop of lines 1584-1607 moves on; behind the last symbol the list is
\* sorted and cut (lines 1610-1611).
FindNextSymbol(cards, delivered) ==
    /\ stocks' = cards
    /\ senv' = Append(senv, delivered)
    /\ IF sidx < universe
       THEN /\ sidx' = sidx + 1
            /\ spc' = "loop"
            /\ sout' = <<>>
       ELSE /\ sidx' = sidx
            /\ spc' = "done"
            /\ sout' = Take(SortByScore(cards), ApiTopK)

\* Lines 1585-1590: _fetch_stock_data returned None, or the three-month
\* history is empty: the symbol is skipped.
FindSkips ==
    /\ screener = "api" /\ spc = "loop"
    /\ \E h \in Hists \cup {<<>>}, r \in BOOLEAN, hist3mo \in Hists \cup {<<>>} :
          /\ (ApiFetchResult(sidx, h, r) = None \/ hist3mo = <<>>)
          /\ FindNextSymbol(stocks, NoProfile)
    /\ UNCHANGED <<screener, universe, sattempt, outsideScreen>>

\* Lines 1591-1607: the symbol is scored and appended, whatever its score.
FindScores(p) ==
    /\ screener = "api" /\ spc = "loop"
    /\ \E h \in Hists :
          /\ ApiFetchResult(sidx, h, FALSE) # None
          /\ FindNextSymbol(Append(stocks, Card(sidx, CalculateStockScore(p))), p)
    /\ UNCHANGED <<screener, universe, sattempt, outsideScreen>>

\* Lines 1613-1615: stock.history, stock.info or the indicator computation
\* raised for the current symbol; the handler around the whole loop returns
\* [].
FindRaises ==
    /\ screener = "api" /\ spc = "loop"
    /\ spc' = "done"
    /\ sout' = <<>>
    /\ UNCHANGED <<screener, universe, sidx, sattempt, stocks, senv, outsideScreen>>

FindScoresAny == \E p \in HeadProfiles : FindScores(p)

NextScreen ==
    \/ CallScreen
    \/ ScreenUniverseFails
    \/ ScreenAttemptRaises
    \/ ScreenAttemptEmpty
    \/ ScreenScores
    \/ FindStart
    \/ FindSkips
    \/ FindScoresAny
    \/ FindRaises

SpecScreen == Init /\ [][NextScreen]_vars

\* ------------------------------------------------- analyze_investment
\* The symbol loop moves on, its symbol having come to `outcome`; `valid`
\* says whether the symbol's fundamentals and company information were
\* entered into the result. `strict` is the test behind the loop that only
\* the API advisor makes.
\* api/agents/investment_advisor.py line 685: _predict_stock_price is a
\* coroutine function (line 1073) and the call is not awaited, so the value
\* entered at line 686 is the coroutine object, not the prediction.
PredictStockPriceCall == "coroutine"

AnalyzeNextSymbol(valid, outcome, strict) ==
    /\ fundamentals' = IF valid THEN fundamentals \cup {batch[aidx]} ELSE fundamentals
    /\ companyInfo' = IF valid THEN companyInfo \cup {batch[aidx]} ELSE companyInfo
    /\ predictions' = IF valid /\ advisor = "api"
                      THEN predictions \cup {<<batch[aidx], PredictStockPriceCall>>}
                      ELSE predictions
    /\ gptAnalysis' = gptAnalysis
    /\ aenv' = Append(aenv, outcome)
    /\ IF aidx < Len(batch)
       THEN /\ aidx' = aidx + 1
            /\ anpc' = "loop"
            /\ aresult' = "none"
       ELSE /\ aidx' = aidx
            /\ anpc' = "done"
            /\ aresult' = IF strict /\ fundamentals' = {} THEN "raised" ELSE "returned"

\* agents/investment_advisor.py lines 503-525 and 582: the agent advisor
\* starts on a batch; over an empty batch it returns the empty result.
AnalyzeStart(symbols) ==
    /\ anpc \in {"idle", "done"}
    /\ FetchFinished
    /\ advisor' = "agent"
    /\ batch' = symbols
    /\ fundamentals' = {}
    /\ companyInfo' = {}
    /\ predictions' = {}
    /\ gptAnalysis' = {}
    /\ aenv' = <<>>
    /\ IF symbols = <<>>
       THEN /\ aidx' = 0
            /\ anpc' = "done"
            /\ aresult' = "returned"
       ELSE /\ aidx' = 1
            /\ anpc' = "loop"
            /\ aresult' = "none"
    /\ UNCHANGED <<now, cacheVars, fetchVars, outsideAnalysis>>

\* Line 529: the call of _fetch_stock_data for the current symbol.
AnalyzeFetch ==
    /\ advisor = "agent" /\ anpc = "loop"
    /\ BeginFetch(batch[aidx], DefaultMaxRetries)
    /\ anpc' = "fetching"
    /\ UNCHANGED <<advisor, batch, aidx, fundamentals, companyInfo, predictions,
                   gptAnalysis, aenv, aresult,
                   outsideAnalysis>>

\* Lines 530-580: the fetch returned a payload, so fundamentals and company
\* information are entered (what follows, charts and the LLM's advice, may
\* raise and is then skipped); or it raised, and the handler of the symbol
\* moves to the next one. Line 582: the result is returned.
AnalyzeAfterFetch ==
    /\ advisor = "agent" /\ anpc = "fetching"
    /\ fpc \in {"returned", "raised"}
    /\ IF fpc = "returned"
       THEN AnalyzeNextSymbol(TRUE, "valid", FALSE)
       ELSE AnalyzeNextSymbol(FALSE, "raised", FALSE)
    /\ UNCHANGED <<advisor, batch, now, cacheVars, fetchVars, outsideAnalysis>>

\* ------------------------------------------------ _convert_to_symbol
\* A Python string is the sequence of its characters.
Letters == {"a", "b", "c", "d", "e", "f", "g", "h", "i", "j", "k", "l", "m",
            "n", "o", "p", "q", "r", "s", "t", "u", "v", "w", "x", "y", "z"}
CharUpper ==
    [a |-> "A", b |-> "B", c |-> "C", d |-> "D", e |-> "E", f |-> "F", g |-> "G",
     h |-> "H", i |-> "I", j |-> "J", k |-> "K", l |-> "L", m |-> "M", n |-> "N",
     o |-> "O", p |-> "P", q |-> "Q", r |-> "R", s |-> "S", t |-> "T", u |-> "U",
     v |-> "V", w |-> "W", x |-> "X", y |-> "Y", z |-> "Z"]
Capitals == {CharUpper[c] : c \in Letters}
CharLower(c) == CHOOSE l \in Letters : CharUpper[l] = c

\* str.upper, str.lower, str.isalpha, str.isupper, str.strip, str.endswith
Upper(str) == [i \in 1..Len(str) |-> IF str[i] \in Letters THEN CharUpper[str[i]] ELSE str[i]]
Lower(str) == [i \in 1..Len(str) |-> IF str[i] \in Capitals THEN CharLower(str[i]) ELSE str[i]]
IsAlpha(str) == Len(str) > 0 /\ \A i \in 1..Len(str) : str[i] \in Letters \cup Capitals
IsUpper(str) ==
    /\ \E i \in 1..Len(str) : str[i] \in Letters \cup Capitals
    /\ \A i \in 1..Len(str) : str[i] \notin Letters
RECURSIVE StripLeft(_)
StripLeft(str) ==
    IF str # <<>> /\ Head(str) = " " THEN StripLeft(Tail(str)) ELSE str
RECURSIVE StripRight(_)
StripRight(str) ==
    IF str # <<>> /\ str[Len(str)] = " "
    THEN StripRight(SubSeq(str, 1, Len(str) - 1))
    ELSE str
Strip(str) == StripRight(StripLeft(str))
EndsWith(str, suffix) ==
    /\ Len(suffix) <= Len(str)
    /\ SubSeq(str, Len(str) - Len(suffix) + 1, Len(str)) = suffix

\* dict.get on a table given as a set of <<key, value>> pairs
Keys(tbl) == {e[1] : e \in tbl}
ValueOf(tbl, key) == (CHOOSE e \in tbl : e[1] = key)[2]

\* api/agents/investment_advisor.py lines 47-74: company_to_symbol
CompanyToSymbol ==
    {<<<<"A", "P", "P", "L", "E">>, <<"A", "A", "P", "L">>>>,
     <<<<"T", "E", "S", "L", "A">>, <<"T", "S", "L", "A">>>>,
     <<<<"M", "I", "C", "R", "O", "S", "O", "F", "T">>, <<"M", "S", "F", "T">>>>,
     <<<<"G", "O", "O", "G", "L", "E">>, <<"G", "O", "O", "G", "L">>>>,
     <<<<"A", "L", "P", "H", "A", "B", "E", "T">>, <<"G", "O", "O", "G", "L">>>>,
     <<<<"A", "M", "A", "Z", "O", "N">>, <<"A", "M", "Z", "N">>>>,
     <<<<"M", "E", "T", "A">>, <<"M", "E", "T", "A">>>>,
     <<<<"F", "A", "C", "E", "B", "O", "O", "K">>, <<"M", "E", "T", "A">>>>,
     <<<<"N", "E", "T", "F", "L", "I", "X">>, <<"N", "F", "L", "X">>>>,
     <<<<"N", "V", "I", "D", "I", "A">>, <<"N", "V", "D", "A">>>>,
     <<<<"A", "M", "D">>, <<"A", "M", "D">>>>,
     <<<<"I", "N", "T", "E", "L">>, <<"I", "N", "T", "C">>>>,
     <<<<"I", "B", "M">>, <<"I", "B", "M">>>>,
     <<<<"C", "O", "C", "A", " ", "C", "O", "L", "A">>, <<"K", "O">>>>,
     <<<<"C", "O", "C", "A", "-", "C", "O", "L", "A">>, <<"K", "O">>>>,
     <<<<"N", "I", "K", "E">>, <<"N", "K", "E">>>>,
     <<<<"D", "I", "S", "N", "E", "Y">>, <<"D", "I", "S">>>>,
     <<<<"W", "A", "L", "M", "A", "R", "T">>, <<"W", "M", "T">>>>,
     <<<<"J", "P", "M", "O", "R", "G", "A", "N">>, <<"J", "P", "M">>>>,
     <<<<"J", "P", " ", "M", "O", "R", "G", "A", "N">>, <<"J", "P", "M">>>>,
     <<<<"G", "O", "L", "D", "M", "A", "N", " ", "S", "A", "C", "H", "S">>, <<"G", "S">>>>,
     <<<<"B", "O", "E", "I", "N", "G">>, <<"B", "A">>>>,
     <<<<"M", "C", "D", "O", "N", "A", "L", "D", "S">>, <<"M", "C", "D">>>>,
     <<<<"M", "C", "D", "O", "N", "A", "L", "D", "'", "S">>, <<"M", "C", "D">>>>,
     <<<<"V", "I", "S", "A">>, <<"V">>>>,
     <<<<"M", "A", "S", "T", "E", "R", "C", "A", "R", "D">>, <<"M", "A">>>>}

\* Lines 85-90: common_suffixes, in the order they are tried
CommonSuffixes ==
    <<<<" ", "I", "N", "C">>,
      <<" ", "C", "O", "R", "P">>,
      <<" ", "C", "O", "R", "P", "O", "R", "A", "T", "I", "O", "N">>,
      <<" ", "C", "O">>,
      <<" ", "C", "O", "M", "P", "A", "N", "Y">>,
      <<" ", "L", "T", "D">>,
      <<" ", "L", "I", "M", "I", "T", "E", "D">>,
      <<" ", "G", "R", "O", "U", "P">>,
      <<" ", "H", "O", "L", "D", "I", "N", "G", "S">>,
      <<" ", "T", "E", "C", "H", "N", "O", "L", "O", "G", "I", "E", "S">>>>

\* Line 44: query.upper().strip()
UpperStrip(query) == Strip(Upper(query))

\* Line 76: len(query) <= 5 and query.isalpha()
IsShortAlpha(query) == Len(query) <= ShortSymbolLen /\ IsAlpha(query)

\* Lines 85-90: the first suffix of the list the query ends with is cut off,
\* and no other.
RECURSIVE DropSuffixFrom(_, _)
DropSuffixFrom(query, k) ==
    IF k > Len(CommonSuffixes) THEN query
    ELSE IF EndsWith(query, CommonSuffixes[k])
         THEN SubSeq(query, 1, Len(query) - Len(CommonSuffixes[k]))
         ELSE DropSuffixFrom(query, k + 1)
DropSuffix(query) == DropSuffixFrom(query, 1)

\* A variant whose last branch returns the query with its suffix cut off.
ApiConvertToSymbolReturnsCleanQuery(query) ==
    IF IsShortAlpha(UpperStrip(query)) THEN UpperStrip(query)
    ELSE IF UpperStrip(query) \in Keys(CompanyToSymbol)
         THEN ValueOf(CompanyToSymbol, UpperStrip(query))
    ELSE IF DropSuffix(UpperStrip(query)) \in Keys(CompanyToSymbol)
         THEN ValueOf(CompanyToSymbol, DropSuffix(UpperStrip(query)))
    ELSE DropSuffix(UpperStrip(query))

\* api/agents/investment_advisor.py lines 40-99, _convert_to_symbol
ApiConvertToSymbol(query) ==
    IF IsShortAlpha(UpperStrip(query)) THEN UpperStrip(query)
    ELSE IF UpperStrip(query) \in Keys(CompanyToSymbol)
         THEN ValueOf(CompanyToSymbol, UpperStrip(query))
    ELSE IF DropSuffix(UpperStrip(query)) \in Keys(CompanyToSymbol)
         THEN ValueOf(CompanyToSymbol, DropSuffix(UpperStrip(query)))
    ELSE UpperStrip(query)

\* agents/investment_advisor.py lines 652-661: company_to_symbol
AgentCompanyToSymbol ==
    {<<<<"t", "e", "s", "l", "a">>, <<"T", "S", "L", "A">>>>,
     <<<<"a", "p", "p", "l", "e">>, <<"A", "A", "P", "L">>>>,
     <<<<"m", "i", "c", "r", "o", "s", "o", "f", "t">>, <<"M", "S", "F", "T">>>>,
     <<<<"g", "o", "o", "g", "l", "e">>, <<"G", "O", "O", "G", "L">>>>,
     <<<<"a", "m", "a", "z", "o", "n">>, <<"A", "M", "Z", "N">>>>,
     <<<<"m", "e", "t", "a">>, <<"M", "E", "T", "A">>>>,
     <<<<"n", "e", "t", "f", "l", "i", "x">>, <<"N", "F", "L", "X">>>>,
     <<<<"n", "v", "i", "d", "i", "a">>, <<"N", "V", "D", "A">>>>}

\* agents/investment_advisor.py lines 649-673, _convert_to_symbol: the
\* argument is lower-cased first, so the test of line 664 sees no upper-case
\* letter.
AgentConvertToSymbol(company) ==
    IF IsUpper(Lower(company)) /\ Len(Lower(company)) <= ShortSymbolLen THEN Lower(company)
    ELSE IF Lower(company) \in Keys(AgentCompanyToSymbol)
         THEN ValueOf(AgentCompanyToSymbol, Lower(company))
    ELSE Upper(Lower(company))

\* The queries analyze_investment is handed in the model.
Queries == {<<"A", "A", "A">>, <<"B", "B", "B">>,
            <<"a", "p", "p", "l", "e", " ", "i", "n", "c">>}

\* Lines 610-646: the API advisor converts the batch and raises over an
\* empty one.
ApiAnalyzeStart(symbols) ==
    /\ anpc \in {"idle", "done"}
    /\ FetchFinished
    /\ advisor' = "api"
    /\ batch' = [i \in 1..Len(symbols) |-> ApiConvertToSymbol(symbols[i])]
    /\ fundamentals' = {}
    /\ companyInfo' = {}
    /\ predictions' = {}
    /\ gptAnalysis' = {}
    /\ aenv' = <<>>
    /\ IF symbols = <<>>
       THEN /\ aidx' = 0
            /\ anpc' = "done"
            /\ aresult' = "raised"
       ELSE /\ aidx' = 1
            /\ anpc' = "loop"
            /\ aresult' = "none"
    /\ UNCHANGED <<now, cacheVars, fetchVars, outsideAnalysis>>

\* Lines 648-664: the fetch returned None, or the history or the info is
\* empty: the symbol is skipped.
ApiAnalyzeSkips ==
    /\ advisor = "api" /\ anpc = "loop"
    /\ \E h \in Hists \cup {<<>>}, r \in BOOLEAN, hist \in Hists \cup {<<>>},
          info \in RawInfos :
          /\ \/ ApiFetchResult(batch[aidx], h, r) = None
             \/ hist = <<>>
             \/ info = EmptyInfo
          /\ AnalyzeNextSymbol(FALSE, "nodata", TRUE)
    /\ UNCHANGED <<advisor, batch, now, cacheVars, fetchVars, outsideAnalysis>>

\* Lines 652-658 and 711-713: stock.history or stock.info raised.
ApiAnalyzeRaises ==
    /\ advisor = "api" /\ anpc = "loop"
    /\ \E h \in Hists :
          /\ ApiFetchResult(batch[aidx], h, FALSE) # None
          /\ AnalyzeNextSymbol(FALSE, "raised", TRUE)
    /\ UNCHANGED <<advisor, batch, now, cacheVars, fetchVars, outsideAnalysis>>

\* Lines 666-686: fundamentals, company information and the prediction are
\* entered. Line 689-693: subscripting the coroutine object raises
\* TypeError, so line 695 (gptAnalysis) and what follows are skipped and
\* the handler of lines 711-713 moves to the next symbol.
\* Lines 715-718: behind the loop, an empty fundamentals section raises.
ApiAnalyzeEnters ==
    /\ advisor = "api" /\ anpc = "loop"
    /\ \E h \in Hists, hist \in Hists, info \in RawInfos :
          /\ ApiFetchResult(batch[aidx], h, FALSE) # None
          /\ hist # <<>>
          /\ info # EmptyInfo
          /\ AnalyzeNextSymbol(TRUE, "valid", TRUE)
    /\ UNCHANGED <<advisor, batch, now, cacheVars, fetchVars, outsideAnalysis>>

\* The batches: sequences of at most MaxBatch elements.
Batches(S) == UNION {[1..n -> S] : n \in 0..MaxBatch}

CallAnalyze == \E symbols \in Batches(Symbols) : AnalyzeStart(symbols)
CallApiAnalyze == \E symbols \in Batches(Queries) : ApiAnalyzeStart(symbols)

NextAnalyze ==
    \/ CallAnalyze
    \/ AnalyzeFetch
    \/ YFinanceOk
    \/ YahooChartOk
    \/ AlphaVantageOk
    \/ FinnhubOk
    \/ ProviderFailure
    \/ AnalyzeAfterFetch
    \/ CallApiAnalyze
    \/ ApiAnalyzeSkips
    \/ ApiAnalyzeRaises
    \/ ApiAnalyzeEnters

SpecAnalyze == Init /\ [][NextAnalyze]_vars

\* ------------------------------------------------ the scoring rules alone
\* Inputs of the scoring rules: indicator values in every band of the rules,
\* NaN (an indicator over a history that is too short) and infinities, and
\* fundamentals that are zero, negative, NaN or null.
RsiInputs == {Num(10), Num(25), Num(35), Num(50), Num(65), Num(75), Num(85), NaN}
MacdInputs == {Num(-1), Num(1), NaN}
TrendInputs == {<<Num(10), Num(9), Num(8)>>, <<Num(10), Num(9), Num(11)>>,
                <<Num(8), Num(9), Num(10)>>, <<Num(10), Num(9), NaN>>}
MomentumInputs == {Num(-10), Num(-2), Num(0), Num(5), Num(20), NaN, PosInf, NegInf}
PeInputs == {None, Num(-5), Num(0), Num(20), Num(40), Num(60), NaN}
MarginInputs == {None, Num(-3), Num(0), Num(5), Num(15), Num(25), NaN}

ScoreInputs ==
    {Profile(r, m, t[1], t[2], t[3], mo, pe, mg) :
        r \in RsiInputs, m \in MacdInputs, t \in TrendInputs,
        mo \in MomentumInputs, pe \in PeInputs, mg \in MarginInputs}

\* agents/market_analyzer.py lines 675-706 applied to one input.
InlineOutcome(p) ==
    [rule |-> "inline", input |-> p, raised |-> InlineRaises(p),
     total |-> IF InlineRaises(p) THEN 0 ELSE InlineScore(p)]

\* _calculate_stock_score applied to one input.
CalculateOutcome(p) ==
    [rule |-> "calculate", input |-> p, raised |-> FALSE,
     total |-> CalculateStockScore(p)]

\* A behaviour applies one rule to one input.
ApplyInlineScore ==
    /\ scored.rule = "none"
    /\ \E p \in ScoreInputs : scored' = InlineOutcome(p)
    /\ UNCHANGED <<programVars, sanitized, emitted, resolved, auxVars>>

ApplyCalculateStockScore ==
    /\ scored.rule = "none"
    /\ \E p \in ScoreInputs : scored' = CalculateOutcome(p)
    /\ UNCHANGED <<programVars, sanitized, emitted, resolved, auxVars>>

NextScore ==
    \/ ApplyInlineScore
    \/ ApplyCalculateStockScore

SpecScore == Init /\ [][NextScore]_vars

\* ------------------------------------------- sanitizers and emitted numbers
\* A finite float beyond 1e308 in magnitude (up to about 1.8e308), by sign,
\* and a value that is no number at all (a string, say).
Huge(sign) == [kind |-> "huge", v |-> sign]
NotANumber == [kind |-> "str", v |-> 0]

\* What a sanitizer may be handed: None, NaN, the infinities, finite numbers
\* inside and beyond 1e308, and a value that is no number.
SanitizerInputs ==
    {None, NaN, PosInf, NegInf, Huge(1), Huge(-1), NotANumber}
    \cup {Num(v) : v \in (0 - MaxMagnitude)..MaxMagnitude}

\* np.isnan / np.isinf raise TypeError on a value that is no number.
NumpyRaises(x) == IF x # None /\ x.kind = "str" THEN "TypeError" ELSE "none"

\* agents/investment_advisor.py lines 290-302, _sanitize_float: the value
\* its try block computes; its bare except turns every exception into 0.0.
AgentSanitizeFloat(x) ==
    IF x = None THEN Num(0)
    ELSE IF NumpyRaises(x) # "none" THEN Num(0)
    ELSE IF IsNaN(x) \/ IsInf(x) THEN Num(0)
    ELSE IF x.kind = "huge" THEN Num(0)
    ELSE x

\* api/agents/investment_advisor.py lines 101-111, _sanitize_float:
\* pd.isna(None) is true; the handler catches TypeError and ValueError.
ApiSanitizeCaught == {"TypeError", "ValueError"}
ApiSanitizeFloat(x) ==
    IF x = None THEN Num(0)
    ELSE IF IsNaN(x) THEN Num(0)
    ELSE IF NumpyRaises(x) \in ApiSanitizeCaught THEN Num(0)
    ELSE IF IsInf(x) THEN Num(0)
    ELSE IF x.kind = "huge" THEN Num(0)
    ELSE x

\* Whether the API advisor's _sanitize_float lets an exception out.
ApiSanitizeRaises(x) == NumpyRaises(x) \notin (ApiSanitizeCaught \cup {"none"})

IsFloat(x) == x # None /\ x.kind \in {"num", "huge", "nan", "pinf", "ninf"}

SanitizeDataKeepsNonFinite(x) == x

\* agents/market_analyzer.py lines 149-159, _sanitize_data on a leaf: a
\* float that is NaN or infinite becomes 0.0, everything else is kept.
SanitizeData(x) ==
    IF IsFloat(x) /\ (IsNaN(x) \/ IsInf(x)) THEN Num(0) ELSE x

SanitizeOutcome(fn, x) ==
    IF fn = "agent"
    THEN [fn |-> fn, input |-> x, raised |-> FALSE,
          value |-> AgentSanitizeFloat(x),
          again |-> AgentSanitizeFloat(AgentSanitizeFloat(x))]
    ELSE IF fn = "api"
    THEN [fn |-> fn, input |-> x, raised |-> ApiSanitizeRaises(x),
          value |-> ApiSanitizeFloat(x),
          again |-> ApiSanitizeFloat(ApiSanitizeFloat(x))]
    ELSE [fn |-> fn, input |-> x, raised |-> FALSE,
          value |-> SanitizeData(x),
          again |-> SanitizeData(SanitizeData(x))]

\* A behaviour applies one sanitizer to one input.
ApplyAgentSanitizeFloat ==
    /\ sanitized.fn = "none" /\ emitted.by = "none"
    /\ \E x \in SanitizerInputs : sanitized' = SanitizeOutcome("agent", x)
    /\ UNCHANGED <<programVars, scored, emitted, resolved, auxVars>>

ApplyApiSanitizeFloat ==
    /\ sanitized.fn = "none" /\ emitted.by = "none"
    /\ \E x \in SanitizerInputs : sanitized' = SanitizeOutcome("api", x)
    /\ UNCHANGED <<programVars, scored, emitted, resolved, auxVars>>

ApplySanitizeData ==
    /\ sanitized.fn = "none" /\ emitted.by = "none"
    /\ \E x \in SanitizerInputs : IsFloat(x) /\ sanitized' = SanitizeOutcome("data", x)
    /\ UNCHANGED <<programVars, scored, emitted, resolved, auxVars>>

\* The floats a provider's history or an indicator over it may hold.
ProviderFloats == {Num(0), Num(MaxMagnitude), NaN, PosInf}

Emit(by, fields) ==
    /\ sanitized.fn = "none" /\ emitted.by = "none"
    /\ emitted' = [by |-> by, fields |-> fields]
    /\ UNCHANGED <<programVars, scored, sanitized, resolved, auxVars>>

\* agents/investment_advisor.py lines 368-394: every number of the
\* fundamentals goes through _sanitize_float.
EmitFundamentals ==
    \E price \in ProviderFloats, pe \in ProviderFloats \cup {None} :
        Emit("fundamentals", <<AgentSanitizeFloat(price), AgentSanitizeFloat(pe)>>)

\* agents/investment_advisor.py lines 586-618 and 683-688: the chart data are
\* the Close and Volume columns as they are, and handle_task passes the
\* result on when json.dumps accepts it, which it does for NaN and Infinity.
EmitCharts ==
    \E close \in ProviderFloats, volume \in ProviderFloats :
        Emit("charts", <<close, volume>>)

\* api/agents/investment_advisor.py lines 1593-1605: the card holds momentum
\* and rsi as computed.
EmitPotentialStock ==
    \E momentum \in ProviderFloats, rsi \in ProviderFloats :
        Emit("find_potential_stocks", <<momentum, rsi>>)

\* api/agents/investment_advisor.py lines 1301-1331: _analyze_index returns
\* the current price and the rsi as computed.
EmitIndexAnalysis ==
    \E current \in ProviderFloats, rsi \in ProviderFloats :
        Emit("analyze_index", <<current, rsi>>)

\* agents/market_analyzer.py lines 710-723 and 748-751: the analyzer's
\* handle_task passes the whole result of analyze_market, screening cards
\* included, through _sanitize_data.
EmitMarketTask ==
    \E momentum \in ProviderFloats, rsi \in ProviderFloats :
        Emit("market_handle_task", <<SanitizeData(momentum), SanitizeData(rsi)>>)

NextOutput ==
    \/ ApplyAgentSanitizeFloat
    \/ ApplyApiSanitizeFloat
    \/ ApplySanitizeData
    \/ EmitFundamentals
    \/ EmitCharts
    \/ EmitPotentialStock
    \/ EmitIndexAnalysis
    \/ EmitMarketTask

SpecOutput == Init /\ [][NextOutput]_vars

\* ------------------------------------------------ resolving a query
\* _convert_to_symbol of either advisor applied once to a query, and once
\* more to what it returned.
QueryAlphabet == {"a", "A", " ", "1"}
RECURSIVE StringsUpTo(_)
StringsUpTo(n) ==
    IF n = 0 THEN {<<>>}
    ELSE StringsUpTo(n - 1) \cup
         {Append(str, c) : str \in {t \in StringsUpTo(n - 1) : Len(t) = n - 1},
                           c \in QueryAlphabet}

\* Names no table of either advisor holds, with and without suffixes.
UnknownNames ==
    {<<"f", "o", "o">>,
     <<"f", "o", "o", " ", "b", "a", "r">>,
     <<"F", "o", "o", " ", "I", "n", "c">>,
     <<"f", "o", "o", "b", "a", "r", " ", "i", "n", "c">>,
     <<" ", "F", "o", "o", "b", "a", "r", " ", "C", "o", "r", "p", " ">>,
     <<"a", "c", "m", "e", " ", "c", "o", " ", "l", "t", "d">>,
     <<"f", "o", "o", "b", "a", "r", " ", "i", "n", "c", " ", "g", "r", "o", "u", "p">>,
     <<"b", "r", "k", ".", "b">>}

TableNames == Keys(CompanyToSymbol) \cup {Upper(k) : k \in Keys(AgentCompanyToSymbol)}
TableSymbols == {e[2] : e \in CompanyToSymbol \cup AgentCompanyToSymbol}

NamedQueries ==
    TableNames \cup TableSymbols \cup UnknownNames
    \cup {Lower(k) : k \in TableNames \cup TableSymbols}
    \cup {<<" ">> \o Lower(k) \o <<" ">> : k \in TableNames}
    \cup {k \o CommonSuffixes[j] : k \in TableNames, j \in 1..Len(CommonSuffixes)}
    \cup {Lower(k \o CommonSuffixes[j]) : k \in TableNames, j \in 1..Len(CommonSuffixes)}

ResolverInputs == StringsUpTo(MaxQueryLen) \cup NamedQueries

ApplyApiConvertToSymbol ==
    /\ resolved.by = "none"
    /\ \E query \in ResolverInputs :
        resolved' = [by |-> "api", input |-> query,
                     output |-> ApiConvertToSymbol(query),
                     again |-> ApiConvertToSymbol(ApiConvertToSymbol(query))]
    /\ UNCHANGED <<programVars, scored, sanitized, emitted, auxVars>>

ApplyAgentConvertToSymbol ==
    /\ resolved.by = "none"
    /\ \E company \in ResolverInputs :
        resolved' = [by |-> "agent", input |-> company,
                     output |-> AgentConvertToSymbol(company),
                     again |-> AgentConvertToSymbol(AgentConvertToSymbol(company))]
    /\ UNCHANGED <<programVars, scored, sanitized, emitted, auxVars>>

NextResolve ==
    \/ ApplyApiConvertToSymbol
    \/ ApplyAgentConvertToSymbol

SpecResolve == Init /\ [][NextResolve]_vars

\* ------------------------------------------------ indicator computation
\* api/agents/investment_advisor.py lines 842-860: the fields of the result
\* and the library object each is read from.
MarketFields ==
    {<<"macd", "MACD">>, <<"macd_signal", "MACD">>, <<"macd_diff", "MACD">>,
     <<"adx", "ADX">>, <<"adx_pos", "ADX">>, <<"adx_neg", "ADX">>,
     <<"stoch_k", "Stoch">>, <<"stoch_d", "Stoch">>, <<"obv", "OBV">>,
     <<"force_index", "FI">>, <<"atr", "ATR">>}

\* Lines 1154-1196: the fields of the five groups of the result and their
\* library objects.
TechnicalFields ==
    {<<"sma_20", "SMA20">>, <<"sma_50", "SMA50">>, <<"ema_20", "EMA20">>,
     <<"macd_line", "MACD">>, <<"macd_signal", "MACD">>, <<"macd_diff", "MACD">>,
     <<"adx", "ADX">>, <<"ichimoku_a", "Ichimoku">>, <<"ichimoku_b", "Ichimoku">>,
     <<"kst", "KST">>, <<"kst_sig", "KST">>, <<"rsi", "RSI">>, <<"stoch_k", "Stoch">>,
     <<"stoch_d", "Stoch">>, <<"williams_r", "WilliamsR">>, <<"roc", "ROC">>,
     <<"bb_high", "Bollinger">>, <<"bb_mid", "Bollinger">>, <<"bb_low", "Bollinger">>,
     <<"atr", "ATR">>, <<"keltner_high", "Keltner">>, <<"keltner_mid", "Keltner">>,
     <<"keltner_low", "Keltner">>, <<"obv", "OBV">>, <<"force_index", "FI">>,
     <<"cmf", "CMF">>, <<"mfi", "MFI">>, <<"daily_return", "DailyReturn">>,
     <<"cumulative_return", "CumulativeReturn">>}

ObjectsOf(fields) == {e[2] : e \in fields}

\* What a library object does on the series: its last value is a number, it
\* is NaN (the series is shorter than the window), or building or reading it
\* raises.
AllValues(fields) == [o \in ObjectsOf(fields) |-> "value"]
RECURSIVE WithFaults(_, _)
WithFaults(fields, k) ==
    IF k = 0 THEN {AllValues(fields)}
    ELSE WithFaults(fields, k - 1) \cup
         {[outcome EXCEPT ![o] = f] : outcome \in WithFaults(fields, k - 1),
                                     o \in ObjectsOf(fields), f \in {"nan", "raises"}}

LastValue(outcome, o) == IF outcome[o] = "nan" THEN NaN ELSE Num(1)

\* The body of the try block of either function: one raise anywhere leaves
\* through the except clause, which returns {} (lines 864-866, 1198-1200).
IndicatorsOf(fields, outcome) ==
    IF \E o \in ObjectsOf(fields) : outcome[o] = "raises" THEN {}
    ELSE {<<e[1], ApiSanitizeFloat(LastValue(outcome, e[2]))>> : e \in fields}

\* Lines 814-866, _calculate_market_indicators: an empty frame returns {}.
CalculateMarketIndicators(empty, outcome) ==
    IF empty THEN {} ELSE IndicatorsOf(MarketFields, outcome)

\* Lines 1119-1200, _calculate_technical_indicators: on an empty frame
\* .iloc[-1] raises.
CalculateTechnicalIndicators(empty, outcome) ==
    IF empty THEN {} ELSE IndicatorsOf(TechnicalFields, outcome)

ApplyCalculateMarketIndicators ==
    /\ computed.fn = "none"
    /\ \E empty \in BOOLEAN, outcome \in WithFaults(MarketFields, MaxFaults) :
        computed' = [fn |-> "market", empty |-> empty, fields |-> MarketFields,
                     outcome |-> outcome,
                     result |-> CalculateMarketIndicators(empty, outcome)]
    /\ UNCHANGED <<programVars, scored, sanitized, emitted, resolved, workers, race, llm>>

ApplyCalculateTechnicalIndicators ==
    /\ computed.fn = "none"
    /\ \E empty \in BOOLEAN, outcome \in WithFaults(TechnicalFields, MaxFaults) :
        computed' = [fn |-> "technical", empty |-> empty, fields |-> TechnicalFields,
                     outcome |-> outcome,
                     result |-> CalculateTechnicalIndicators(empty, outcome)]
    /\ UNCHANGED <<programVars, scored, sanitized, emitted, resolved, workers, race, llm>>

NextIndicators ==
    \/ ApplyCalculateMarketIndicators
    \/ ApplyCalculateTechnicalIndicators

SpecIndicators == Init /\ [][NextIndicators]_vars

\* ------------------------------------------------ _analyze_market_condition
\* api/agents/investment_advisor.py lines 868-955, for a non-empty frame
\* whose indicators were computed. The values of the result are written
\* "strong_up" for the source's "强势上涨", "strong_down" "强势下跌",
\* "mild_up" "温和上涨", "mild_down" "温和下跌", "sideways" "横盘整理";
\* "high" "高波动", "low" "低波动", "normal" "正常波动"; "overbought" "超买",
\* "oversold" "超卖", "stronger" "走强", "weaker" "走弱", "neutral" "中性";
\* "high_risk" "高风险", "low_risk" "低风险", "medium_risk" "中等风险".

\* Lines 890-903
MarketTrend(ind) ==
    IF FLt(ind.macd_signal, ind.macd) /\ FLt(Num(25), ind.adx) THEN "strong_up"
    ELSE IF FLt(ind.macd, ind.macd_signal) /\ FLt(Num(25), ind.adx) THEN "strong_down"
    ELSE IF FLt(ind.macd_signal, ind.macd) THEN "mild_up"
    ELSE IF FLt(ind.macd, ind.macd_signal) THEN "mild_down"
    ELSE "sideways"

\* Lines 906-915: volatility_ratio = (atr / avg_price) * 100
Volatility(ind) ==
    IF FLt(Num(3), ind.volatility_ratio) THEN "high"
    ELSE IF FLt(ind.volatility_ratio, Num(1)) THEN "low"
    ELSE "normal"

\* Lines 918-931: obv is the last value of the on-balance volume
MarketStrength(ind) ==
    IF FLt(Num(80), ind.stoch_k) /\ FLt(Num(0), ind.obv) THEN "overbought"
    ELSE IF FLt(ind.stoch_k, Num(20)) /\ FLt(ind.obv, Num(0)) THEN "oversold"
    ELSE IF FLt(ind.stoch_d, ind.stoch_k) THEN "stronger"
    ELSE IF FLt(ind.stoch_k, ind.stoch_d) THEN "weaker"
    ELSE "neutral"

\* Lines 934-939
RiskLevel(volatility, strength) ==
    IF volatility = "high" /\ strength \in {"overbought", "oversold"} THEN "high_risk"
    ELSE IF volatility = "low" /\ strength = "neutral" THEN "low_risk"
    ELSE "medium_risk"

\* Lines 941-946
AnalyzeMarketCondition(ind) ==
    [market_trend |-> MarketTrend(ind),
     volatility |-> Volatility(ind),
     strength |-> MarketStrength(ind),
     risk_level |-> RiskLevel(Volatility(ind), MarketStrength(ind))]

\* The indicators of a frame, with the on-balance volume one bar before its
\* last value; the ratio atr / mean close is NaN or infinite when the mean
\* is.
ConditionInputs ==
    [macd : {Num(-1), Num(0), Num(1)}, macd_signal : {Num(0)},
     adx : {Num(20), Num(30)},
     volatility_ratio : {Num(0), Num(2), Num(5), NaN, PosInf},
     stoch_k : {Num(10), Num(50), Num(90)},
     stoch_d : {Num(10), Num(50), Num(90)},
     obv : {Num(-5), Num(0), Num(5)},
     obv_before : {Num(-10), Num(0), Num(10)}]

ApplyAnalyzeMarketCondition ==
    /\ computed.fn = "none"
    /\ \E ind \in ConditionInputs :
        computed' = [fn |-> "condition", input |-> ind,
                     result |-> AnalyzeMarketCondition(ind)]
    /\ UNCHANGED <<programVars, scored, sanitized, emitted, resolved, workers, race, llm>>

NextCondition == ApplyAnalyzeMarketCondition

SpecCondition == Init /\ [][NextCondition]_vars

\* ------------------------------------------------ results and the language model
\* What a call of LLMProvider.generate_response comes to: a text that holds a
\* prediction (prices, confidence in percent), a text that does not parse,
\* or an exception.
LlmOutcomes ==
    {[kind |-> "text", parses |-> TRUE, prices |-> <<11, 12>>, confidence |-> 80],
     [kind |-> "text", parses |-> TRUE, prices |-> <<9>>, confidence |-> 50],
     [kind |-> "text", parses |-> FALSE, prices |-> <<>>, confidence |-> 0],
     [kind |-> "raises", parses |-> FALSE, prices |-> <<>>, confidence |-> 0]}

\* agents/investment_advisor.py lines 396-401: valuation_status, "high" for
\* the source's "偏高", "low" for "偏低", "fair" for "适中"
ValuationStatus(pe) ==
    IF FLt(Num(30), pe) THEN "high"
    ELSE IF FLt(Num(0), pe) /\ FLt(pe, Num(15)) THEN "low"
    ELSE "fair"

\* Lines 360-459, _analyze_fundamentals of the agent advisor: the numbers are
\* computed before the language model is called (line 420), whose exception
\* is caught (lines 421-423) and whose text goes to "analysis" only.
AnalyzeFundamentals(data, reply) ==
    [numbers |-> [current_price |-> AgentSanitizeFloat(data.price),
                  pe_ratio |-> AgentSanitizeFloat(data.pe),
                  valuation_status |-> ValuationStatus(AgentSanitizeFloat(data.pe))],
     analysis |-> IF reply.kind = "raises" THEN "fallback" ELSE "text"]

\* api/agents/investment_advisor.py lines 1062-1070 (and 1052-1059)
DefaultPrediction ==
    [predicted_prices |-> <<>>, confidence |-> 0]

\* Lines 1026-1059: the text is evaluated and the prices and the confidence
\* are taken from it.
ParsedPrediction(reply) ==
    IF reply.parses
    THEN [predicted_prices |-> reply.prices, confidence |-> reply.confidence]
    ELSE DefaultPrediction

\* A variant in which the awaited call hands its text on.
PredictWithLlmAwaited(data, reply) ==
    [numbers |-> IF reply.kind = "raises" THEN DefaultPrediction ELSE ParsedPrediction(reply),
     analysis |-> IF reply.kind = "raises" \/ ~reply.parses THEN "fallback" ELSE "text"]

\* core/llm_provider.py line 30: generate_response is a plain function that
\* returns a str, and line 1024 awaits what it returns: await on a str raises
\* TypeError.
AwaitRaises(reply) == reply.kind = "text"

\* api/agents/investment_advisor.py lines 957-1070, _predict_with_llm: an
\* exception of the call or of the await leaves through line 1062.
PredictWithLlm(data, reply) ==
    [numbers |-> IF reply.kind = "raises" \/ AwaitRaises(reply) THEN DefaultPrediction
                 ELSE ParsedPrediction(reply),
     analysis |-> "fallback"]

AdviceInputs == [price : ProviderFloats, pe : SanitizerInputs \ {NotANumber}]

ApplyAnalyzeFundamentals ==
    /\ computed.fn = "none"
    /\ \E data \in AdviceInputs, reply \in LlmOutcomes :
        computed' = [fn |-> "fundamentals", data |-> data, reply |-> reply,
                     result |-> AnalyzeFundamentals(data, reply)]
    /\ UNCHANGED <<programVars, scored, sanitized, emitted, resolved, workers, race, llm>>

ApplyPredictWithLlm ==
    /\ computed.fn = "none"
    /\ \E data \in AdviceInputs, reply \in LlmOutcomes :
        computed' = [fn |-> "predict", data |-> data, reply |-> reply,
                     result |-> PredictWithLlm(data, reply)]
    /\ UNCHANGED <<programVars, scored, sanitized, emitted, resolved, workers, race, llm>>

NextAdvice ==
    \/ ApplyAnalyzeFundamentals
    \/ ApplyPredictWithLlm

SpecAdvice == Init /\ [][NextAdvice]_vars

\* ------------------------------------------------ core/llm_provider.py
outsideLlm == <<programVars, scored, sanitized, emitted, resolved, computed, workers, race>>

LlmFinished == llm.pc \in {"idle", "returned", "raised"}
\* The model asked for: the default of the environment, the one the API
\* advisor names, and the fallback.
Models == {"default", "gpt-4-turbo-preview", "gpt-3.5-turbo"}

\* Lines 30-36: generate_response is entered; attempt = 0.
CallGenerateResponse ==
    /\ LlmFinished
    /\ \E model \in Models, max \in 0..MaxLlmRetries :
        llm' = [fn |-> "generate_response", pc |-> "loop", model |-> model,
                attempt |-> 0, calls |-> 0, fallbacks |-> 0, slept |-> 0, max |-> max,
                res |-> "none"]
    /\ UNCHANGED outsideLlm

\* The loop of generate_response is about to call the completion service.
Generating == llm.fn = "generate_response" /\ llm.pc = "loop" /\ llm.attempt < llm.max

\* Lines 43-57: the service answers and the text is returned.
GenerateSucceeds ==
    /\ Generating
    /\ llm' = [llm EXCEPT !.calls = @ + 1, !.pc = "returned", !.res = "text"]
    /\ UNCHANGED outsideLlm

\* Lines 59-62 and 78: RateLimitError, sleep (2 ** attempt) + 1, attempt += 1.
GenerateRateLimited ==
    /\ Generating
    /\ llm' = [llm EXCEPT !.calls = @ + 1, !.attempt = @ + 1,
                          !.slept = @ + (2 ^ llm.attempt) + 1]
    /\ UNCHANGED outsideLlm

\* A variant that falls back whatever the model in use.
GenerateModelNotFoundAlwaysFallsBack ==
    /\ Generating
    /\ llm' = [llm EXCEPT !.calls = @ + 1, !.model = "gpt-3.5-turbo",
                          !.fallbacks = @ + 1]
    /\ UNCHANGED outsideLlm

\* Lines 64-72: APIError naming model_not_found: the call goes on with
\* gpt-3.5-turbo and the same attempt, unless that is the model already.
GenerateModelNotFound ==
    /\ Generating
    /\ llm' = IF llm.model # "gpt-3.5-turbo"
              THEN [llm EXCEPT !.calls = @ + 1, !.model = "gpt-3.5-turbo",
                               !.fallbacks = @ + 1]
              ELSE [llm EXCEPT !.calls = @ + 1, !.pc = "raised", !.res = "raised"]
    /\ UNCHANGED outsideLlm

\* Lines 64-72: any other APIError is raised again.
GenerateApiError ==
    /\ Generating
    /\ llm' = [llm EXCEPT !.calls = @ + 1, !.pc = "raised", !.res = "raised"]
    /\ UNCHANGED outsideLlm

\* Lines 74-78: any other exception is raised again on the last attempt.
GenerateOtherError ==
    /\ Generating
    /\ llm' = IF llm.attempt = llm.max - 1
              THEN [llm EXCEPT !.calls = @ + 1, !.pc = "raised", !.res = "raised"]
              ELSE [llm EXCEPT !.calls = @ + 1, !.attempt = @ + 1]
    /\ UNCHANGED outsideLlm

\* Line 80: the loop has ended without a return.
GenerateGivesUp ==
    /\ llm.fn = "generate_response" /\ llm.pc = "loop" /\ llm.attempt >= llm.max
    /\ llm' = [llm EXCEPT !.pc = "raised", !.res = "raised"]
    /\ UNCHANGED outsideLlm

\* Lines 82-90: generate_response_sync is entered.
CallGenerateResponseSync ==
    /\ LlmFinished
    /\ \E max \in 0..MaxLlmRetries :
        llm' = [fn |-> "generate_response_sync", pc |-> "loop", model |-> "default",
                attempt |-> 0, calls |-> 0, fallbacks |-> 0, slept |-> 0, max |-> max,
                res |-> "none"]
    /\ UNCHANGED outsideLlm

SyncGenerating ==
    llm.fn = "generate_response_sync" /\ llm.pc = "loop" /\ llm.attempt < llm.max

\* Lines 92-103: the service answers.
SyncSucceeds ==
    /\ SyncGenerating
    /\ llm' = [llm EXCEPT !.calls = @ + 1, !.pc = "returned", !.res = "text"]
    /\ UNCHANGED outsideLlm

\* Lines 105-108: RateLimitError, sleep, next attempt, on the last attempt
\* too.
SyncRateLimited ==
    /\ SyncGenerating
    /\ llm' = [llm EXCEPT !.calls = @ + 1, !.attempt = @ + 1,
                          !.slept = @ + (2 ^ llm.attempt) + 1]
    /\ UNCHANGED outsideLlm

\* Lines 110-122: APIError or another exception: sleep and next attempt, or
\* on the last attempt raise, which line 124 catches: the fallback message
\* is returned.
SyncError ==
    /\ SyncGenerating
    /\ llm' = IF llm.attempt < llm.max - 1
              THEN [llm EXCEPT !.calls = @ + 1, !.attempt = @ + 1, !.slept = @ + 2]
              ELSE [llm EXCEPT !.calls = @ + 1, !.pc = "returned",
                               !.res = "fallback_message"]
    /\ UNCHANGED outsideLlm

\* The for loop has run out: the try block ends without a return statement
\* and the function returns None.
SyncLoopEnds ==
    /\ llm.fn = "generate_response_sync" /\ llm.pc = "loop" /\ llm.attempt >= llm.max
    /\ llm' = [llm EXCEPT !.pc = "returned", !.res = "null"]
    /\ UNCHANGED outsideLlm

NextLlm ==
    \/ CallGenerateResponse
    \/ GenerateSucceeds
    \/ GenerateRateLimited
    \/ GenerateModelNotFound
    \/ GenerateApiError
    \/ GenerateOtherError
    \/ GenerateGivesUp
    \/ CallGenerateResponseSync
    \/ SyncSucceeds
    \/ SyncRateLimited
    \/ SyncError
    \/ SyncLoopEnds

SpecLlm == Init /\ [][NextLlm]_vars

\* The completion service answers or fails within its timeout, so a call in
\* its loop keeps taking steps.
LlmStep ==
    \/ GenerateSucceeds \/ GenerateRateLimited \/ GenerateModelNotFound
    \/ GenerateApiError \/ GenerateOtherError \/ GenerateGivesUp
    \/ SyncSucceeds \/ SyncRateLimited \/ SyncError \/ SyncLoopEnds

FairSpecLlm == SpecLlm /\ WF_vars(LlmStep)

\* ================================================================ claims

FetchCalled == fpc # "idle"
FetchRunning == fpc \in {"p1", "p2", "p3", "p4"}
FetchedFromProvider == fpc = "returned" /\ ~fhit

C2_EntryServedWithinTTL ==
    gdone =>
        LET e == puts[gstore][gsym]
            ttl == IF gstore = "file" THEN FileTTL ELSE MemTTL
        IN  e.present =>
              /\ (now < e.timestamp + ttl) => gres = Some(e.data)
              /\ (now >= e.timestamp + ttl) => gres = None

\* C2 witness: the in-memory store answers a get made after the put and
\* inside the window with the stored payload.
C2_Witness_FreshLaterGet ==
    /\ gdone
    /\ gstore = "mem"
    /\ puts["mem"][gsym].present
    /\ now > puts["mem"][gsym].timestamp
    /\ gres = Some(puts["mem"][gsym].data)

C4_SecondProviderAnswers ==
    (/\ FetchedFromProvider
     /\ calls[1] >= 1
     /\ fails[1] = calls[1]
     /\ calls[2] >= 1
     /\ fails[2] = 0)
    =>
    (/\ fres \in {Payload(2, h, DefaultInfo(fsym)) : h \in Hists}
     /\ calls[2] = 1
     /\ calls[3] = 0
     /\ calls[4] = 0)

\* C4 witness: the fetch has returned provider 2's payload after one failed
\* call of provider 1.
C4_Witness_FallbackToSecond ==
    /\ FetchedFromProvider
    /\ fails[1] = 1
    /\ calls[2] = 1
    /\ fres.provider = 2

\* C5: a payload a fetch obtained from a provider is in the cache store,
\* under its symbol, when the fetch returns: in the agent advisor's file
\* store and in the API advisor's in-memory store.
C5_FetchedPayloadIsCached ==
    /\ FetchedFromProvider =>
          (files[fsym].exists /\ files[fsym].data = fres)
    /\ (apc = "done" /\ ares # None) =>
          (cache[asym].present /\ cache[asym].data.hist = ares[1].hist)

\* The bounded part of C6: no provider is invoked more than max_retries
\* times; a call all of whose provider calls failed ends by raising, after
\* max_retries calls of each provider, leaving only the stale file (if any)
\* it found.
C6_Bounded ==
    /\ \A p \in Providers : calls[p] <= fmax
    /\ (FetchCalled /\ ~FetchRunning /\ ~fhit /\ fails = calls) => fpc = "raised"
    /\ fpc = "raised" =>
          /\ \A p \in Providers : calls[p] = fmax /\ fails[p] = fmax
          /\ fres = NoData
          /\ files[fsym].exists => files[fsym].mtime + FileTTL <= fstart

\* C6: _fetch_stock_data terminates for every combination of provider
\* outcomes: it invokes no provider more than max_retries times, raises
\* when every call of every provider failed, and every call that was
\* started returns or raises.
C6_FetchTerminates ==
    /\ []C6_Bounded
    /\ FetchRunning ~> (fpc \in {"returned", "raised"})

\* C6 witness: the fetch has raised after every provider failed in each of
\* the three rounds.
C6_Witness_AllFailed ==
    /\ fpc = "raised"
    /\ \A p \in Providers : fails[p] = DefaultMaxRetries


\* ---------------------------------------------------------------- screening
ScreenDone == spc = "done"
TopKOf(which) == IF which = "market" THEN TopK ELSE ApiTopK
Delivered(i) == senv[i] # NoProfile
ScoreOf(i) ==
    IF screener = "market" THEN InlineScore(senv[i]) ELSE CalculateStockScore(senv[i])
\* The processed symbols that are to be listed: they delivered data and, in
\* the market screener, reached the cutoff.
Eligible ==
    {i \in 1..Len(senv) :
        Delivered(i) /\ (screener = "market" => ScoreOf(i) >= ScoreCutoff)}
\* i is listed before j: higher score, or equal score and earlier in the universe.
RanksBefore(i, j) == ScoreOf(i) > ScoreOf(j) \/ (ScoreOf(i) = ScoreOf(j) /\ i < j)
Rank(i) == Cardinality({j \in Eligible : RanksBefore(j, i)})
Listed(i) == \E k \in 1..Len(sout) : sout[k].symbol = i

\* C7 (as stated): when a screening pass has returned, every symbol of its
\* universe has been processed, and every processed symbol that is eligible
\* and ranks within the first top_k is in the output, whatever exceptions
\* other symbols raised.
C7_FailureNeverStopsOthers ==
    ScreenDone =>
        /\ Len(senv) = universe
        /\ \A i \in Eligible : Rank(i) < TopKOf(screener) => Listed(i)

\* C9: the list returned by _screen_potential_stocks is exactly the first
\* top_k of the symbols that delivered data and scored at least 60, by
\* descending score and, among equal scores, in universe order; a universe
\* scoring 80, 45, 65 yields the first and the third symbol.
C9_OutputIsTopKOfEligible ==
    (ScreenDone /\ screener = "market") =>
        /\ Len(sout) = Min(TopK, Cardinality(Eligible))
        /\ \A k \in 1..Len(sout) :
              /\ sout[k].symbol \in Eligible
              /\ sout[k].score = ScoreOf(sout[k].symbol)
              /\ Rank(sout[k].symbol) = k - 1
        /\ (senv = <<Strong, Weak, Fair>>) => (sout = <<Card(1, 80), Card(3, 65)>>)

\* A pass with more than top_k eligible symbols, whose output is cut and is
\* not in universe order.
C9_Witness_CutAndReordered ==
    /\ ScreenDone /\ screener = "market"
    /\ Cardinality(Eligible) > TopK
    /\ Len(sout) = TopK
    /\ \E k \in 1..(Len(sout) - 1) : sout[k].symbol > sout[k + 1].symbol
    /\ \E k \in 1..(Len(sout) - 1) : sout[k].score = sout[k + 1].score

\* C10: the list either screener returns has at most top_k elements and is
\* sorted by non-increasing score; when no symbol of the universe delivered
\* data it is empty.
C10_BoundedSortedOrEmpty ==
    ScreenDone =>
        /\ Len(sout) <= TopKOf(screener)
        /\ \A k \in 1..(Len(sout) - 1) : sout[k].score >= sout[k + 1].score
        /\ (\A i \in 1..Len(senv) : ~Delivered(i)) => (sout = <<>>)

\* A pass over a universe of several symbols none of which delivered data.
C10_Witness_AllFailed ==
    /\ ScreenDone
    /\ universe >= 2
    /\ Len(senv) = universe
    /\ \A i \in 1..Len(senv) : ~Delivered(i)
    /\ sout = <<>>

\* ------------------------------------------------------ analyze_investment
\* C8 (as stated): a call of analyze_investment on a batch ends by raising
\* exactly when no symbol of the batch produced valid data.
C8_RaisesIffNoValidSymbol ==
    (anpc = "done" /\ batch # <<>>) =>
        (aresult = "raised" <=> (\A i \in 1..Len(aenv) : aenv[i] # "valid"))

\* C11 (as stated): every card in the list a screening pass returned has a
\* score of at least 60.
C11_ListedScoresReachCutoff ==
    ScreenDone => \A k \in 1..Len(sout) : sout[k].score >= ScoreCutoff

C13_EmittedNumbersFinite ==
    emitted.by # "none" =>
        \A i \in 1..Len(emitted.fields) : IsFinite(emitted.fields[i])

\* C14 (as stated): every sanitizer returns 0.0 for None, NaN, the
\* infinities, a finite number beyond 1e308 and a value that is no number,
\* returns every other finite number unchanged, never raises, and gives the
\* same result applied twice.
C14_Original_AllSanitizersClampRange ==
    sanitized.fn # "none" =>
        /\ ~sanitized.raised
        /\ sanitized.again = sanitized.value
        /\ IF sanitized.input # None /\ IsFinite(sanitized.input)
           THEN sanitized.value = sanitized.input
           ELSE sanitized.value = Num(0)

\* C14 (as amended): _sanitize_float of either advisor never raises, returns
\* 0.0 for None, NaN, the infinities, a finite number beyond 1e308 and a
\* value that is no number, and returns every other finite number unchanged;
\* _sanitize_data on a float returns 0.0 for NaN and the infinities and
\* every finite float unchanged, those beyond 1e308 included; each gives the
\* same result applied twice.
C14_SanitizersTotalAndIdempotent ==
    sanitized.fn # "none" =>
        /\ ~sanitized.raised
        /\ sanitized.again = sanitized.value
        /\ IF sanitized.input # None /\ IsFinite(sanitized.input)
           THEN sanitized.value = sanitized.input
           ELSE IF sanitized.fn = "data" /\ sanitized.input.kind = "huge"
           THEN sanitized.value = sanitized.input
           ELSE sanitized.value = Num(0)

\* _sanitize_data has replaced a NaN, and _sanitize_float a value that is no
\* number.
C14_Witness_Replaced ==
    /\ sanitized.fn \in {"data", "api"}
    /\ sanitized.input \in {NaN, NotANumber}
    /\ sanitized.value = Num(0)
    /\ ~sanitized.raised

\* ------------------------------------------------------------ cache stores
\* C15 (as stated): a get on a symbol whose entry is stale (age >= ttl)
\* returns nothing, and right after it the store holds no entry for the
\* symbol: the in-memory dictionary has no such key, the cache file no
\* longer exists.
C15_StaleGetEvicts ==
    LET e == puts[gstore][gsym]
        ttl == IF gstore = "file" THEN FileTTL ELSE MemTTL
    IN  (gdone /\ e.present /\ now >= e.timestamp + ttl) =>
            /\ gres = None
            /\ gstore = "mem" => ~cache[gsym].present
            /\ gstore = "file" => ~files[gsym].exists

\* C16: when the cache file of the symbol exists and is fresh but cannot be
\* opened or unpickled, _load_from_cache returns None without raising and
\* _fetch_stock_data goes to the providers as it does when there is no file:
\* it is no cache hit, provider 1 is invoked first, and a payload a provider
\* delivers is returned and written over the damaged file.
C16_UnreadableIsMiss ==
    FetchCalled =>
        /\ fhit <=> ffound = "fresh"
        /\ ffound \in {"unreadable", "absent"} =>
              /\ (fpc = "p1" /\ attempt = 0) \/ calls[1] >= 1
              /\ fpc = "returned" => fres.provider \in Providers
              /\ (fpc = "returned" /\ files[fsym].readable) => files[fsym].data = fres

\* A fetch that came upon an unreadable fresh file has returned a provider's
\* payload.
C16_Witness_RefetchedOverDamage ==
    /\ ffound = "unreadable"
    /\ fpc = "returned"
    /\ fres.provider \in Providers
    /\ calls[1] >= 1

\* ------------------------------------------------------ provider payloads
\* The Finnhub payloads that stem from a quote holding the price field "c".
WellFormedFinnhub(symbol) ==
    {Payload(4, FinnhubHist(q), FinnhubInfo(symbol, p)) :
        q \in {r \in Quotes : "c" \in DOMAIN r}, p \in Profiles}

\* C17 (as stated): a provider response that lacks a required field counts
\* as a failure of that provider: no payload built from it is returned or
\* cached. For Finnhub: every payload of provider 4 that a fetch returned or
\* the cache holds stems from a quote with the price field "c".
C17_MalformedIsFailure ==
    /\ (fpc = "returned" /\ fres.provider = 4) => fres \in WellFormedFinnhub(fsym)
    /\ \A s \in Symbols :
          (files[s].exists /\ files[s].data.provider = 4) =>
              files[s].data \in WellFormedFinnhub(s)

\* C18 (as stated): in every info record a fetch returned or the cache
\* holds, whatever the provider path, no optional field is null: each holds
\* the provider's value or a neutral sentinel (0 or "Unknown").
C18_NoNullField ==
    /\ fpc = "returned" => \A k \in InfoKeys : fres.info[k] # None
    /\ \A s \in Symbols :
          files[s].exists => \A k \in InfoKeys : files[s].data.info[k] # None


NormalizedQuery == DropSuffix(UpperStrip(resolved.input))

\* The tickers' shape, and the names the table of the advisor in use holds.
TickerShaped(str) == IsShortAlpha(UpperStrip(str))
AliasesOf(by) ==
    IF by = "api" THEN Keys(CompanyToSymbol)
    ELSE {Upper(k) : k \in Keys(AgentCompanyToSymbol)}

\* C20: for a query that is not ticker-shaped and matches no alias,
\* _convert_to_symbol returns the query upper-cased, trimmed and with its
\* corporate suffix stripped.
C20_NoMatchReturnsNormalized ==
    ( /\ resolved.by # "none"
      /\ ~TickerShaped(resolved.input)
      /\ UpperStrip(resolved.input) \notin AliasesOf(resolved.by)
      /\ NormalizedQuery \notin AliasesOf(resolved.by) )
    => resolved.output = NormalizedQuery


\* C21: the seconds slept between the failed round k of _fetch_stock_data and
\* the first request of round k + 1 are 2^k, and no provider is requested
\* more than max_retries times.
C21_BackoffDoubles ==
    /\ (fpc = "p2" /\ attempt >= 1) => fwait = BackoffBase ^ (attempt - 1)
    /\ \A p \in Providers : calls[p] <= fmax


\* C22: on a non-empty series, an indicator that cannot be computed takes
\* 0.0, every other indicator of the set is returned with its value, and
\* the result is not empty.
C22_OnlyFailedIndicatorIsNeutral ==
    (computed.fn \in {"market", "technical"} /\ ~computed.empty) =>
        /\ computed.result # {}
        /\ \A e \in computed.fields :
            <<e[1], IF computed.outcome[e[2]] = "value" THEN Num(1) ELSE Num(0)>>
                \in computed.result


\* The rule table of C23 for strength: the slope of the on-balance volume
\* is the sign of its last step.
ObvSlopePositive(ind) == FLt(ind.obv_before, ind.obv)
ObvSlopeNegative(ind) == FLt(ind.obv, ind.obv_before)
TableStrength(ind) ==
    IF FLt(Num(80), ind.stoch_k) /\ ObvSlopePositive(ind) THEN "overbought"
    ELSE IF FLt(ind.stoch_k, Num(20)) /\ ObvSlopeNegative(ind) THEN "oversold"
    ELSE IF FLt(ind.stoch_d, ind.stoch_k) THEN "stronger"
    ELSE IF FLt(ind.stoch_k, ind.stoch_d) THEN "weaker"
    ELSE "neutral"
TableRisk(volatility, strength) ==
    IF volatility = "high" /\ strength \in {"overbought", "oversold"} THEN "high_risk"
    ELSE IF volatility = "low" /\ strength = "neutral" THEN "low_risk"
    ELSE "medium_risk"

\* C23: _analyze_market_condition returns the strength and the risk of the
\* rule table: overbought when %K > 80 and the OBV slope is positive,
\* oversold when %K < 20 and the OBV slope is negative, otherwise by %K
\* against %D; risk high for high volatility with overbought or oversold,
\* low for low volatility with neutral, medium otherwise.
C23_ConditionFollowsRuleTable ==
    computed.fn = "condition" =>
        /\ computed.result.strength = TableStrength(computed.input)
        /\ computed.result.risk_level =
               TableRisk(computed.result.volatility, TableStrength(computed.input))


\* The total a scoring rule gives a profile it does not raise on.
TotalOf(rule, p) == IF rule = "inline" THEN InlineScore(p) ELSE CalculateStockScore(p)
ModerateMargin(p) ==
    p.profit_margin # None /\ FLe(Num(10), p.profit_margin) /\ FLe(p.profit_margin, Num(20))

\* C24: all other inputs equal, a profit margin above 20% gives a strictly
\* higher total than a margin between 10% and 20%, under both scoring rules.
C24_HighMarginScoresHigher ==
    (scored.rule # "none" /\ ~scored.raised /\ ModerateMargin(scored.input)) =>
        \A high \in {m \in MarginInputs : m # None /\ FLt(Num(20), m)} :
            TotalOf(scored.rule, [scored.input EXCEPT !.profit_margin = high])
                > scored.total


\* Every operation of the concurrent workers has come to its end.
AllFinished == \A w \in Workers : Free(w)
Holds(d) ==
    IF race.store = "mem"
    THEN cache[RaceSymbol].present => cache[RaceSymbol].data = d
    ELSE files[RaceSymbol].data = d

\* C25: with several workers on the same symbol, every get returns nothing
\* or a complete payload some put wrote and none raises, a fresh entry is
\* never removed by a get, and when all operations have finished the store
\* holds the payload of the last put.
C25_ConcurrentGetPutSafe ==
    /\ \A w \in Workers :
        /\ workers[w].pc # "raised"
        /\ workers[w].res # None => workers[w].res[1] \in RacePayloads
    /\ ~race.removedFresh
    /\ (AllFinished /\ race.lastPut # None) => Holds(race.lastPut[1])


\* The result of the same function on the same provider data under another
\* outcome of the language model.
ResultUnder(reply) ==
    IF computed.fn = "fundamentals" THEN AnalyzeFundamentals(computed.data, reply)
    ELSE PredictWithLlm(computed.data, reply)

GenerateBounded ==
    llm.fn = "generate_response" =>
        /\ llm.calls <= llm.max + 1
        /\ llm.fallbacks <= 1
        /\ llm.pc = "returned" => llm.res = "text"
        /\ llm.pc = "raised" => llm.res = "raised"

\* C27: generate_response makes at most max_retries + 1 calls to the
\* completion service, falls back to gpt-3.5-turbo at most once, and every
\* call that has begun ends by returning text or raising.
C27_GenerateResponseTerminates ==
    /\ []GenerateBounded
    /\ (llm.fn = "generate_response" /\ llm.pc = "loop")
           ~> (llm.fn = "generate_response" /\ llm.pc \in {"returned", "raised"})

\* a call that fell back to gpt-3.5-turbo, used every retry and one call more
C27_Witness_FallbackThenExhausted ==
    /\ llm.fn = "generate_response"
    /\ llm.pc = "raised"
    /\ llm.fallbacks = 1
    /\ llm.max = MaxLlmRetries
    /\ llm.calls = llm.max + 1

\* C28: generate_response_sync never raises and returns a string, the
\* response text or the fallback message, whatever its attempts come to.
C28_SyncReturnsString ==
    (llm.fn = "generate_response_sync" /\ llm.pc # "loop") =>
        /\ llm.pc = "returned"
        /\ llm.res \in {"text", "fallback_message"}


\* ---------------------------------------------------------------- C29
\* The sections of the result that hold a completed value for a key.
Completed(key) == \E p \in predictions : p[1] = key /\ p[2] = "dict"

\* C29: when analyze_investment returns, a symbol is a key of the
\* fundamentals section exactly if it is a key of the companyInfo section
\* and, in the API advisor, of the predictions and gptAnalysis sections with
\* completed values: a symbol contributes all of its sections or none.
C29_AllSectionsOrNone ==
    (anpc = "done" /\ aresult = "returned") =>
        \A i \in 1..Len(batch) :
            /\ batch[i] \in fundamentals <=> batch[i] \in companyInfo
            /\ advisor = "api" =>
                  /\ batch[i] \in fundamentals <=> Completed(batch[i])
                  /\ batch[i] \in fundamentals <=> batch[i] \in gptAnalysis


\* ---------------------------------------------------------------- C30
\* The resolved query is, in some letter case, a key of the alias table.
IsAliasKey == resolved.by # "none" /\ UpperStrip(resolved.input) \in Keys(CompanyToSymbol)

\* C30: for every key of the company-name alias table, in any letter case,
\* _convert_to_symbol returns the ticker the table maps the key to, and the
\* API advisor's and the agent advisor's resolver return the same symbol.
C30_AliasKeysResolveAlike ==
    IsAliasKey =>
        /\ resolved.output = ValueOf(CompanyToSymbol, UpperStrip(resolved.input))
        /\ ApiConvertToSymbol(resolved.input) = AgentConvertToSymbol(resolved.input)

====
